---------------------------- MODULE Spec2Model ----------------------------
(***************************************************************************)
(* News Classifier API: the request-serving core.                          *)
(*                                                                         *)
(*   src/src/api/main.py                 startup, /predict                 *)
(*   src/src/database/redis_client.py    RedisCache (cache-aside layer)    *)
(*   src/src/database/postgres_client.py PostgresLogger (analytics log)    *)
(*   src/src/models/bert_model.py        BERTNewsClassifier.predict        *)
(*                                                                         *)
(* Two specifications share the variables:                                 *)
(*   Spec       the served application: startup, /predict requests, the    *)
(*              detached cache and log writes running beside them, the     *)
(*              clock of the key-value store and writers other than the    *)
(*              application                                                *)
(*   CacheSpec  one RedisCache instance driven directly through its API    *)
(*              (connect, get, set, delete, flush_all), any arguments      *)
(***************************************************************************)
EXTENDS Integers, Sequences, FiniteSets, Bags, TLC

(***************************************************************************)
(* Bounds of the model.                                                    *)
(***************************************************************************)
\* ticks of the store's clock an entry lives (self.ttl, 3600 s by default)
TTL == 2
\* detached tasks (asyncio.create_task) pending at the same time
MaxTasks == 2
\* rows the predictions table can take
MaxRows == 1
\* value at which the model stops counting failed connection attempts
MaxAttempts == 4
\* hours the clock of the log store advances
MaxNow == 1

\* the longest label list given to calculate_metrics
MetricsLen == 3

\* the longest list of titles sent to POST /predict/batch
MaxTitles == 2

\* the longest list of items sent to the batch evaluator
MaxItems == 4

(***************************************************************************)
(* Inputs.  Three request texts; "t1" and "t3" are two texts whose SHA-256  *)
(* hex digests start with the same 16 digits.                              *)
(***************************************************************************)
Texts == {"t1", "t2", "t3"}

Classes == {"BUSINESS", "SPORTS"}

\* hashlib.sha256(text.encode('utf-8')).hexdigest(): the 64 hex digits, as
\* <<first 16 digits, remaining 48 digits>>.  Distinct texts have distinct
\* digests; the first 16 digits alone need not differ.
sha256_hexdigest(text) ==
    CASE text = "t1" -> <<"a1b2", "0001">>
      [] text = "t2" -> <<"c3d4", "0002">>
      [] text = "t3" -> <<"a1b2", "0003">>
      [] text = "" -> <<"e3b0", "0000">>
      [] text = "long" -> <<"f5e6", "0004">>

\* RedisCache._generate_key: f"pred:{hexdigest[:16]}"
_generate_key(text) == <<"pred:", Head(sha256_hexdigest(text))>>

Keys == {_generate_key(t) : t \in Texts}

\* the key RedisCacheSync.get and RedisCacheSync.set address: both call
\* RedisCache._generate_key(text)
RedisCacheSync_key(text) == _generate_key(text)

(***************************************************************************)
(* The classifier: a frozen model is a function of the text.               *)
(***************************************************************************)
Classify(text) ==
    CASE text = "t1" -> [topic |-> "BUSINESS", confidence |-> 90,
                         probabilities |-> [c \in Classes |->
                                IF c = "BUSINESS" THEN 90 ELSE 10]]
      [] text = "t2" -> [topic |-> "SPORTS", confidence |-> 60,
                         probabilities |-> [c \in Classes |->
                                IF c = "SPORTS" THEN 60 ELSE 40]]
      [] text = "t3" -> [topic |-> "SPORTS", confidence |-> 80,
                         probabilities |-> [c \in Classes |->
                                IF c = "SPORTS" THEN 80 ELSE 20]]

Results == {Classify(t) : t \in Texts}

(***************************************************************************)
(* JSON.  Python dicts are functions on strings; a byte string is a        *)
(* sequence of tokens.                                                     *)
(***************************************************************************)
EmptyDict == <<>>

\* json.dumps of a prediction dict {'topic', 'confidence', 'probabilities'}
json_dumps(d) == <<"{", d.topic, d.confidence, d.probabilities, "}">>

\* byte strings a writer other than this application can leave in the store
NotJson     == <<"not json">>
BadUtf8     == <<"\\x80">>
EmptyBytes  == <<>>
EmptyObject == <<"{", "}">>
TopicOnly   == <<"{", "X", "}">>

\* those of them the served application is run against: one that is no JSON,
\* one that is JSON without the fields of a prediction
AppForeignBytes == {NotJson, TopicOnly}

\* those of them the cache layer alone is run against
UnitForeignBytes == {NotJson, BadUtf8, EmptyBytes, EmptyObject}

\* json.loads(bytes): the value, or the exception raised.  Invalid UTF-8 is a
\* UnicodeDecodeError (a ValueError that is no JSONDecodeError).
json_loads(b) ==
    IF b = BadUtf8 THEN [exc |-> "UnicodeDecodeError", val |-> EmptyDict]
    ELSE IF Len(b) >= 2 /\ b[1] = "{" /\ b[Len(b)] = "}"
    THEN IF Len(b) = 5
         THEN [exc |-> "none",
               val |-> [topic |-> b[2], confidence |-> b[3],
                        probabilities |-> b[4]]]
         ELSE IF Len(b) = 3
         THEN [exc |-> "none", val |-> [topic |-> b[2]]]
         ELSE [exc |-> "none", val |-> EmptyDict]
    ELSE [exc |-> "JSONDecodeError", val |-> EmptyDict]

\* Python truthiness of a dict
Truthy(d) == DOMAIN d # {}

(***************************************************************************)
(* The key-value store: per key the bytes and the remaining life in ticks  *)
(* (ttl = 0 with present = TRUE: no expiry set).                           *)
(***************************************************************************)
Absent == [present |-> FALSE, bytes |-> EmptyBytes, ttl |-> 0]

Entry(b, ttl) == [present |-> TRUE, bytes |-> b, ttl |-> ttl]

EmptyStore == [k \in Keys |-> Absent]

\* SETEX key ttl value with the instance's own TTL dropped (a plain SET)
redis_setex_no_ttl(st, k, b) == [st EXCEPT ![k] = Entry(b, 0)]

\* SETEX key self.ttl value: the value replaces the old one, the TTL restarts
redis_setex(st, k, b) == [st EXCEPT ![k] = Entry(b, TTL)]

\* DEL key
redis_delete(st, k) == [st EXCEPT ![k] = Absent]

\* FLUSHDB
redis_flushdb(st) == EmptyStore

\* one tick of the store's clock: entries with an expiry age, and go at 0
redis_tick(st) ==
    [k \in Keys |->
        IF st[k].present /\ st[k].ttl = 1 THEN Absent
        ELSE IF st[k].present /\ st[k].ttl > 1
             THEN [st[k] EXCEPT !.ttl = @ - 1]
             ELSE st[k]]


(***************************************************************************)
(* State.                                                                  *)
(***************************************************************************)
VARIABLES
    phase,            \* "boot", "serving", "aborted" (the application); "unit"
    model,            \* main.model is not None
    redis_cache,      \* main.redis_cache is not None
    postgres_logger,  \* main.postgres_logger is not None
    rc,               \* the RedisCache instance: _connected, client, attempts
    pg,               \* the PostgresLogger instance: _connected, pool, attempts
    store,            \* the key-value store behind the cache layer
    rows,             \* the predictions table, in insertion order
    req,              \* the /predict requests being handled
    tasks,            \* detached tasks created and not yet run (a bag)
    call,             \* CacheSpec: the cache-layer call in progress
    lastOp,           \* CacheSpec: the last cache-layer call that returned
    live,             \* CacheSpec: per key, the value of the last SETEX standing
    now,              \* the clock of the log store (NOW()), in hours
    batch_model       \* routes.batch_predict.model is not None

vars == <<phase, model, redis_cache, postgres_logger, rc, pg, store, rows,
          req, tasks, call, lastOp, live, now, batch_model>>

appVars == <<phase, model, redis_cache, postgres_logger, pg, rows, req,
             tasks, now, batch_model>>

(***************************************************************************)
(* Python values returned by the cache layer: Optional[Dict].              *)
(***************************************************************************)
None == [some |-> FALSE, val |-> EmptyDict]

Some(d) == [some |-> TRUE, val |-> d]

(***************************************************************************)
(* RedisCache (redis_client.py).                                           *)
(***************************************************************************)
\* __init__: not connected, no client, no attempt made
FreshCache == [connected |-> FALSE, client |-> FALSE, attempts |-> 0]

\* the bypass test looking at the client object only
BypassClientOnly(c) == ~c.client

\* the first lines of get, set, delete, flush_all, health_check:
\* "if not self._connected or self.client is None"
Bypass(c) == ~c.connected \/ ~c.client

\* get without its last handler: an exception that is neither a timeout nor a
\* JSONDecodeError leaves the method
get_except_narrow(exc) ==
    CASE exc = "TimeoutError"    -> [raised |-> FALSE, cleanup |-> FALSE]
      [] exc = "JSONDecodeError" -> [raised |-> FALSE, cleanup |-> TRUE]
      [] OTHER                   -> [raised |-> TRUE, cleanup |-> FALSE]

\* the except clauses of get: which exception leaves the method (none), and
\* which one runs the deletion of the entry first
get_except(exc) ==
    CASE exc = "TimeoutError"    -> [raised |-> FALSE, cleanup |-> FALSE]
      [] exc = "JSONDecodeError" -> [raised |-> FALSE, cleanup |-> TRUE]
      [] OTHER                   -> [raised |-> FALSE, cleanup |-> FALSE]

\* the outcomes of "await asyncio.wait_for(self.client.get(key), timeout)"
GetOutcomes == {"reply", "timeout", "raise"}

\* get from the backend's answer on: the try block after the await and the
\* handlers.  via names the path taken, cleanup that the method goes on to
\* "await self.client.delete(key)" before it returns.
get_reply(st, text, out) ==
    LET e == st[_generate_key(text)]
        handled(exc, via) ==
            [raised |-> get_except(exc).raised,
             cleanup |-> get_except(exc).cleanup,
             via |-> via, ret |-> None]
    IN  CASE out = "timeout" -> handled("TimeoutError", "timeout")
          [] out = "raise"   -> handled("ConnectionError", "error")
          [] OTHER ->
             IF ~e.present \/ e.bytes = EmptyBytes
             THEN [raised |-> FALSE, cleanup |-> FALSE, via |-> "miss",
                   ret |-> None]
             ELSE LET d == json_loads(e.bytes)
                  IN  IF d.exc = "none"
                      THEN [raised |-> FALSE, cleanup |-> FALSE,
                            via |-> "hit", ret |-> Some(d.val)]
                      ELSE IF d.exc = "JSONDecodeError"
                      THEN handled(d.exc, "corrupt")
                      ELSE handled(d.exc, "error")

\* the outcomes of the unguarded "await self.client.delete(key)" of the
\* corruption handler: it has no timeout, so a backend that does not answer
\* leaves the call waiting
CleanupOutcomes == {"ok", "raise", "hang"}

\* the corruption handler of get: the store after the DEL ("except: pass")
get_cleanup(st, text, out) ==
    IF out = "ok" THEN redis_delete(st, _generate_key(text)) ELSE st

\* the outcomes of "await asyncio.wait_for(self.client.setex(...), timeout)":
\* written and acknowledged, answered without being performed, timed out with
\* the write performed or not, or an error raised
SetOutcomes == {"ok", "nack", "timeout_applied", "timeout_lost", "raise"}

\* a SETEX that the outcome says reached the store
Applied(out) == out \in {"ok", "timeout_applied"}

\* set that reports every outcome as success
set_return_always_true(out) == TRUE

\* the value set returns once the backend was contacted: "if success: return
\* True / else: return False"; TimeoutError and Exception handlers return True
set_return(out) ==
    CASE out = "ok"   -> TRUE
      [] out = "nack" -> FALSE
      [] OTHER        -> TRUE

\* set writing the text itself instead of the serialized prediction
set_store_unserialized(st, text, prediction, out) ==
    IF Applied(out)
    THEN redis_setex(st, _generate_key(text), <<"{", prediction.topic, "}">>)
    ELSE st

\* the store after set(text, prediction) on a connected layer
set_store(st, text, prediction, out) ==
    IF Applied(out)
    THEN redis_setex(st, _generate_key(text), json_dumps(prediction))
    ELSE st

\* set(text, prediction) as a whole: result and store
RedisCache_set(c, st, text, prediction, out) ==
    IF Bypass(c)
    THEN [ret |-> TRUE, store |-> st, contacted |-> FALSE]
    ELSE [ret |-> set_return(out),
          store |-> set_store(st, text, prediction, out),
          contacted |-> TRUE]

\* the outcomes of the unguarded "await self.client.delete(key)" of delete and
\* "await self.client.flushdb()" of flush_all
DeleteOutcomes == {"ok", "raise", "hang"}

\* delete(text) on a connected layer whose backend answers: the store, and
\* the value returned (True on success and in the except clause)
RedisCache_delete(c, st, text, out) ==
    IF Bypass(c)
    THEN [ret |-> TRUE, store |-> st]
    ELSE [ret |-> TRUE,
          store |-> IF out = "ok" THEN redis_delete(st, _generate_key(text))
                    ELSE st]

\* flush_all(): False when bypassed or when the backend raises
flush_all(c, st, out) ==
    IF Bypass(c)
    THEN [ret |-> FALSE, store |-> st]
    ELSE IF out = "ok"
         THEN [ret |-> TRUE, store |-> redis_flushdb(st)]
         ELSE [ret |-> FALSE, store |-> st]

\* the outcomes of "await asyncio.wait_for(self.client.info(), timeout)"
HealthOutcomes == {"ok", "timeout", "raise"}

\* health_check with one status for every failure
health_check_one_status(c, out) ==
    IF Bypass(c) \/ out # "ok"
    THEN [status |-> "disconnected", connected |-> FALSE,
          contacted |-> ~Bypass(c)]
    ELSE [status |-> "healthy", connected |-> TRUE, contacted |-> TRUE]

\* RedisCache.health_check(): the status payload; the instance is not changed
health_check(c, out) ==
    IF Bypass(c)
    THEN [status |-> "disconnected", connected |-> FALSE, contacted |-> FALSE]
    ELSE IF out = "ok"
         THEN [status |-> "healthy", connected |-> TRUE, contacted |-> TRUE]
         ELSE [status |-> "unhealthy", connected |-> FALSE, contacted |-> TRUE]

\* the outcomes of "await self.client.close()" and of the pool's disconnect
CloseOutcomes == {"ok", "raise"}

\* RedisCache.close(): the flag is cleared unless closing the client raises
RedisCache_close(c, out) ==
    IF c.client /\ out = "raise" THEN c ELSE [c EXCEPT !.connected = FALSE]

(***************************************************************************)
(* Bookkeeping of the store's history, used to state the properties of the *)
(* cache layer: per key, the prediction of the most recent set() that      *)
(* reached the store and the ticks elapsed since, until something else     *)
(* touches the key.                                                        *)
(***************************************************************************)
NoLive == [some |-> FALSE, text |-> "", val |-> EmptyDict, age |-> 0]

LiveAfterSet(lv, text, prediction, out) ==
    IF Applied(out)
    THEN [lv EXCEPT ![_generate_key(text)] =
             [some |-> TRUE, text |-> text, val |-> prediction, age |-> 0]]
    ELSE lv

LiveAfterDrop(lv, k) == [lv EXCEPT ![k] = NoLive]

\* the value standing under a key, as a get is expected to return it
Standing(l) == [l EXCEPT !.text = ""]

LiveAfterTick(lv) ==
    [k \in Keys |->
        IF lv[k].some /\ lv[k].age < TTL
        THEN [lv[k] EXCEPT !.age = @ + 1]
        ELSE lv[k]]


(***************************************************************************)
(* connect() of RedisCache and of PostgresLogger: the same retry code.     *)
(***************************************************************************)
\* self._max_retry_attempts
_max_retry_attempts == 3

\* the outcomes of one connection attempt (pool creation and ping)
AttemptOutcomes == {"ok", "fail"}

\* connect() retrying while the counter has not passed the maximum
RECURSIVE connect_retry_once_more(_, _)
connect_retry_once_more(n, outs) ==
    IF Head(outs) = "ok"
    THEN [connected |-> TRUE, attempts |-> 0, ret |-> TRUE, tries |-> 1,
          sleeps |-> <<>>]
    ELSE IF n + 1 <= _max_retry_attempts
         THEN LET rest == connect_retry_once_more(n + 1, Tail(outs))
              IN  [rest EXCEPT !.tries = @ + 1,
                               !.sleeps = <<2 ^ (n + 1)>> \o @]
         ELSE [connected |-> FALSE, attempts |-> n + 1, ret |-> FALSE,
               tries |-> 1, sleeps |-> <<>>]

\* connect() giving the counter back when it gives up, so that the next call
\* has the full number of attempts again
RECURSIVE connect_reset_on_giving_up(_, _)
connect_reset_on_giving_up(n, outs) ==
    IF Head(outs) = "ok"
    THEN [connected |-> TRUE, attempts |-> 0, ret |-> TRUE, tries |-> 1,
          sleeps |-> <<>>]
    ELSE IF n + 1 < _max_retry_attempts
         THEN LET rest == connect_reset_on_giving_up(n + 1, Tail(outs))
              IN  [rest EXCEPT !.tries = @ + 1,
                               !.sleeps = <<2 ^ (n + 1)>> \o @]
         ELSE [connected |-> FALSE, attempts |-> 0, ret |-> FALSE,
               tries |-> 1, sleeps |-> <<>>]

\* connect() called with the attempt counter at n, the attempts ending as
\* outs says (outs[1] first): the flag, the counter, the value returned, the
\* number of attempts made and the seconds slept in between.  A failure
\* raises the counter and, while it is below the maximum, sleeps 2^counter
\* seconds and calls connect() again.
RECURSIVE connect(_, _)
connect(n, outs) ==
    IF Head(outs) = "ok"
    THEN [connected |-> TRUE, attempts |-> 0, ret |-> TRUE, tries |-> 1,
          sleeps |-> <<>>]
    ELSE IF n + 1 < _max_retry_attempts
         THEN LET rest == connect(n + 1, Tail(outs))
              IN  [rest EXCEPT !.tries = @ + 1,
                               !.sleeps = <<2 ^ (n + 1)>> \o @]
         ELSE [connected |-> FALSE, attempts |-> n + 1, ret |-> FALSE,
               tries |-> 1, sleeps |-> <<>>]

\* the outcome sequences a connect() call can meet
AttemptRuns == [1 .. _max_retry_attempts + 1 -> AttemptOutcomes]

\* the number of attempts of a run that fail before the first success
RECURSIVE LeadingFails(_)
LeadingFails(outs) ==
    IF outs = <<>> \/ Head(outs) = "ok" THEN 0
    ELSE 1 + LeadingFails(Tail(outs))

\* the instance after connect(): the client or the pool object exists from
\* the first attempt on
AfterConnect(c, outs) ==
    LET r == connect(c.attempts, outs)
    IN  [connected |-> r.connected, client |-> TRUE, attempts |-> r.attempts]

(***************************************************************************)
(* PostgresLogger (postgres_client.py).                                    *)
(***************************************************************************)
\* __init__: the pool is the field named client here
FreshLogger == [connected |-> FALSE, client |-> FALSE, attempts |-> 0]

\* the outcomes of one connection attempt of the logger: pool created, ping
\* and schema creation done; create_pool raised (self.pool is not assigned);
\* the pool was created and the ping or the schema creation raised
LoggerAttemptOutcomes == {"ok", "no_pool", "fail"}

\* PostgresLogger.connect() called with the attempt counter at n: as connect
\* of the cache layer (the logger's own _max_retry_attempts is 3 as well),
\* and whether some attempt assigned self.pool
RECURSIVE PostgresLogger_connect(_, _)
PostgresLogger_connect(n, outs) ==
    IF Head(outs) = "ok"
    THEN [connected |-> TRUE, attempts |-> 0, ret |-> TRUE, tries |-> 1,
          sleeps |-> <<>>, pool |-> TRUE]
    ELSE IF n + 1 < _max_retry_attempts
         THEN LET rest == PostgresLogger_connect(n + 1, Tail(outs))
              IN  [rest EXCEPT !.tries = @ + 1,
                               !.sleeps = <<2 ^ (n + 1)>> \o @,
                               !.pool = @ \/ Head(outs) = "fail"]
         ELSE [connected |-> FALSE, attempts |-> n + 1, ret |-> FALSE,
               tries |-> 1, sleeps |-> <<>>, pool |-> Head(outs) = "fail"]

LoggerAttemptRuns == [1 .. _max_retry_attempts + 1 -> LoggerAttemptOutcomes]

\* the logger after connect()
AfterLoggerConnect(l, outs) ==
    LET r == PostgresLogger_connect(l.attempts, outs)
    IN  [connected |-> r.connected, client |-> l.client \/ r.pool,
         attempts |-> r.attempts]

\* _create_tables with the tables dropped and created anew
_create_tables_anew(tbl) == <<>>

\* _create_tables(): CREATE TABLE IF NOT EXISTS / CREATE INDEX IF NOT EXISTS
\* leave the rows of an existing table as they are
_create_tables(tbl) == tbl

\* the outcomes of the insert of log_prediction: inserted, connection
\* acquisition failed, timed out with the row inserted or not, rejected
LogOutcomes == {"ok", "acquire_failed", "timeout_applied", "timeout_lost",
                "rejected"}

\* the row log_prediction inserts: the timestamp is the column's DEFAULT
\* NOW(); text hash, preview text[:200], label, ...
LogRow(text, payload) ==
    [timestamp |-> now,
     text_hash |-> sha256_hexdigest(text), text_preview |-> text,
     predicted_topic |-> payload.prediction,
     confidence |-> payload.confidence,
     model_version |-> payload.model_version, cached |-> payload.cached]

\* log_prediction reporting a failed insert to its caller
log_prediction_reports(l, tbl, text, payload, out) ==
    IF ~l.connected \/ ~l.client
    THEN [ret |-> TRUE, rows |-> tbl]
    ELSE [ret |-> out \in {"ok", "timeout_applied"},
          rows |-> IF out \in {"ok", "timeout_applied"}
                   THEN Append(tbl, LogRow(text, payload))
                   ELSE tbl]

\* log_prediction inserting again after a timeout
log_prediction_retry(l, tbl, text, payload, out) ==
    IF ~l.connected \/ ~l.client
    THEN [ret |-> TRUE, rows |-> tbl]
    ELSE [ret |-> TRUE,
          rows |-> IF out = "ok"
                   THEN Append(tbl, LogRow(text, payload))
                   ELSE IF out = "timeout_applied"
                   THEN Append(Append(tbl, LogRow(text, payload)),
                               LogRow(text, payload))
                   ELSE tbl]

\* log_prediction as a whole: the value returned and the table
log_prediction(l, tbl, text, payload, out) ==
    IF ~l.connected \/ ~l.client
    THEN [ret |-> TRUE, rows |-> tbl]
    ELSE [ret |-> TRUE,
          rows |-> IF out \in {"ok", "timeout_applied"}
                   THEN Append(tbl, LogRow(text, payload))
                   ELSE tbl]

\* the outcomes of the query of get_stats, get_low_confidence_predictions
\* and get_topic_accuracy ("async with self.pool.acquire()" and conn.fetch)
QueryOutcomes == {"ok", "raise"}

\* the topics that have rows
TopicsOf(tbl) == {tbl[i].predicted_topic : i \in 1 .. Len(tbl)}

CountOf(tbl, topic) ==
    Cardinality({i \in 1 .. Len(tbl) : tbl[i].predicted_topic = topic})

RECURSIVE Reverse(_)
Reverse(q) == IF q = <<>> THEN <<>> ELSE Append(Reverse(Tail(q)), Head(q))

\* the window arguments the queries are called with
Hours == {0, 1, 2}

\* the query of get_stats without its WHERE clause
InWindowAll(tbl, hours) == tbl

\* "WHERE timestamp > NOW() - INTERVAL '1 hour' * $1"
InWindow(tbl, hours) ==
    SelectSeq(tbl, LAMBDA row : row.timestamp > now - hours)

\* "total_predictions += count" over the rows the query returned
RECURSIVE SumCounts(_, _)
SumCounts(stats, topics) ==
    IF topics = {} THEN 0
    ELSE LET t == CHOOSE x \in topics : TRUE
         IN  stats[t].count + SumCounts(stats, topics \ {t})

\* the dict get_stats builds from the rows of its query: one entry per
\* label grouped from the rows in the window, then the '_summary' entry
\* (the averages, the percentile and the generation timestamp are left out)
StatsOf(tbl, hours) ==
    LET win == InWindow(tbl, hours)
        stats == [t \in TopicsOf(win) |-> [count |-> CountOf(win, t)]]
        keys == DOMAIN stats \cup {"_summary"}
    IN  [k \in keys |->
           IF k = "_summary"
           THEN [total_predictions |-> SumCounts(stats, DOMAIN stats),
                 num_topics |-> Cardinality(keys) - 1,
                 window_hours |-> hours]
           ELSE stats[k]]

\* get_stats letting the exception of a failed query through
get_stats_unguarded(l, tbl, hours, out) ==
    IF ~l.connected \/ ~l.client
    THEN [raised |-> FALSE, val |-> EmptyDict, contacted |-> FALSE]
    ELSE IF out # "ok"
    THEN [raised |-> TRUE, val |-> EmptyDict, contacted |-> TRUE]
    ELSE [raised |-> FALSE, contacted |-> TRUE, val |-> StatsOf(tbl, hours)]

\* get_stats(hours): {} when bypassed or when the query fails, else the
\* dict built from the rows in the window
get_stats(l, tbl, hours, out) ==
    IF ~l.connected \/ ~l.client
    THEN [raised |-> FALSE, val |-> EmptyDict, contacted |-> FALSE]
    ELSE IF out # "ok"
    THEN [raised |-> FALSE, val |-> EmptyDict, contacted |-> TRUE]
    ELSE [raised |-> FALSE, contacted |-> TRUE, val |-> StatsOf(tbl, hours)]

\* the default threshold of get_low_confidence_predictions, in percent
LowThreshold == 70

\* get_low_confidence_predictions(): [] when bypassed or when the query
\* fails, else the rows below the threshold, newest first
get_low_confidence_predictions(l, tbl, out) ==
    IF ~l.connected \/ ~l.client
    THEN [raised |-> FALSE, val |-> <<>>, contacted |-> FALSE]
    ELSE IF out # "ok"
    THEN [raised |-> FALSE, val |-> <<>>, contacted |-> TRUE]
    ELSE [raised |-> FALSE, contacted |-> TRUE,
          val |-> Reverse(SelectSeq(tbl,
                     LAMBDA row : row.confidence < LowThreshold))]

\* get_topic_accuracy(hours): {} when bypassed or when the query fails, else
\* the total per topic over the rows in the window (the percentages are
\* left out)
get_topic_accuracy(l, tbl, hours, out) ==
    IF ~l.connected \/ ~l.client
    THEN [raised |-> FALSE, val |-> EmptyDict, contacted |-> FALSE]
    ELSE IF out # "ok"
    THEN [raised |-> FALSE, val |-> EmptyDict, contacted |-> TRUE]
    ELSE [raised |-> FALSE, contacted |-> TRUE,
          val |-> [k \in TopicsOf(InWindow(tbl, hours)) |->
                     [total_predictions |->
                         CountOf(InWindow(tbl, hours), k)]]]

\* the three read-only queries by name
Queries == {"get_stats", "get_low_confidence_predictions",
            "get_topic_accuracy"}

Query(name, l, tbl, hours, out) ==
    CASE name = "get_stats" -> get_stats(l, tbl, hours, out)
      [] name = "get_low_confidence_predictions" ->
            get_low_confidence_predictions(l, tbl, out)
      [] name = "get_topic_accuracy" -> get_topic_accuracy(l, tbl, hours, out)

\* the outcomes of the queries of PostgresLogger.health_check
LoggerHealthOutcomes == {"ok", "raise"}

\* PostgresLogger.health_check(): the status payload
PostgresLogger_health_check(l, out) ==
    IF ~l.connected \/ ~l.client
    THEN [status |-> "disconnected", connected |-> FALSE, contacted |-> FALSE]
    ELSE IF out = "ok"
         THEN [status |-> "healthy", connected |-> TRUE, contacted |-> TRUE]
         ELSE [status |-> "unhealthy", connected |-> FALSE, contacted |-> TRUE]

\* PostgresLogger.close(): the flag is cleared unless closing the pool raises
PostgresLogger_close(l, out) ==
    IF l.client /\ out = "raise" THEN l ELSE [l EXCEPT !.connected = FALSE]

(***************************************************************************)
(* The application (main.py).                                              *)
(***************************************************************************)
\* the request slots of the model: one request is handled at a time, beside
\* the detached tasks earlier requests left behind
Slots == {"r1"}

NoResp == [status |-> 0, topic |-> "", confidence |-> 0,
           probabilities |-> EmptyDict, cached |-> FALSE]

\* a request slot: where the handler stands, its input, its response, and
\* what it did: model invocations and how the last one ended, cache lookups
\* and what the lookup returned, the kinds of detached writes created
IdleReq == [pc |-> "idle", title |-> "", resp |-> NoResp,
            infer |-> 0, inferOut |-> "none", lookups |-> 0, got |-> None,
            dispatched |-> {}]

\* HTTPException(status_code=...)
ErrorResp(status) == [NoResp EXCEPT !.status = status]

\* PredictResponse(...)
PredictResponse(d, cached) ==
    [status |-> 200, topic |-> d.topic, confidence |-> d.confidence,
     probabilities |-> d.probabilities, cached |-> cached]

\* a cache write that takes its value from a buffer the handlers share: it
\* carries the result of another request
SetTaskShared(title, prediction) ==
    [kind |-> "set", text |-> title,
     payload |-> [topic |-> Classify("t1").topic,
                  confidence |-> Classify("t1").confidence,
                  probabilities |-> Classify("t1").probabilities]]

\* asyncio.create_task(redis_cache.set(request.title, prediction_result))
SetTask(title, prediction) ==
    [kind |-> "set", text |-> title, payload |-> prediction]

\* asyncio.create_task(postgres_logger.log_prediction(...))
LogTask(title, result, cached) ==
    [kind |-> "log", text |-> title,
     payload |-> [prediction |-> result.topic,
                  confidence |-> result.confidence,
                  model_version |-> "week4_bert_final", cached |-> cached]]

\* the outcomes of model.predict(request.title)
InferOutcomes == {"ok", "raise"}

\* "if cached_result:" and the three subscriptions of the hit path: a value
\* that is truthy and has the three keys is a hit, a truthy value without
\* them raises KeyError into "except Exception" and falls through
CacheHit(got) ==
    /\ got.some
    /\ Truthy(got.val)
    /\ {"topic", "confidence", "probabilities"} \subseteq DOMAIN got.val

\* the detached writes steps 3 and 4 of predict create.  The log write
\* carries the handler's local "cached", which is False on this path except
\* after a lookup that returned a truthy value without the three keys (the
\* assignment "cached = True" precedes the subscriptions that raise); the
\* column is recorded as False here, no property below reads it.
Dispatch(title, result) ==
    (IF redis_cache /\ rc.connected
     THEN SetToBag({SetTask(title,
              [topic |-> result.topic, confidence |-> result.confidence,
               probabilities |-> result.probabilities])})
     ELSE EmptyBag)
    (+)
    (IF postgres_logger
     THEN SetToBag({LogTask(title, result, FALSE)})
     ELSE EmptyBag)

\* predict logging the request also when the model raised
InferLogsFailure(q, inferOut) ==
    IF inferOut = "raise"
    THEN [req |-> [q EXCEPT !.pc = "done", !.infer = @ + 1,
                            !.inferOut = "raise", !.resp = ErrorResp(500),
                            !.dispatched =
                               IF postgres_logger THEN {"log"} ELSE {}],
          tasks |-> IF postgres_logger
                    THEN SetToBag({LogTask(q.title, Classify(q.title), FALSE)})
                    ELSE EmptyBag]
    ELSE [req |-> [q EXCEPT !.pc = "done", !.infer = @ + 1,
                            !.inferOut = "ok",
                            !.dispatched =
                               {t.kind : t \in BagToSet(Dispatch(q.title,
                                                    Classify(q.title)))},
                            !.resp = PredictResponse(Classify(q.title), FALSE)],
          tasks |-> Dispatch(q.title, Classify(q.title))]

\* steps 3 and 4 run inline: the two writes are awaited, none is detached
InferInline(q, inferOut) ==
    IF inferOut = "raise"
    THEN [req |-> [q EXCEPT !.pc = "done", !.infer = @ + 1,
                            !.inferOut = "raise", !.resp = ErrorResp(500)],
          tasks |-> EmptyBag]
    ELSE [req |-> [q EXCEPT !.pc = "done", !.infer = @ + 1,
                            !.inferOut = "ok",
                            !.dispatched =
                               {t.kind : t \in BagToSet(Dispatch(q.title,
                                                    Classify(q.title)))},
                            !.resp = PredictResponse(Classify(q.title), FALSE)],
          tasks |-> EmptyBag]

\* predict from step 2 on, for the request record q: inference, creation of
\* the two detached writes, response; an exception of the model becomes a
\* 500.  The new record and the tasks created.
Infer(q, inferOut) ==
    IF inferOut = "raise"
    THEN [req |-> [q EXCEPT !.pc = "done", !.infer = @ + 1,
                            !.inferOut = "raise", !.resp = ErrorResp(500)],
          tasks |-> EmptyBag]
    ELSE [req |-> [q EXCEPT !.pc = "done", !.infer = @ + 1,
                            !.inferOut = "ok",
                            !.dispatched =
                               {t.kind : t \in BagToSet(Dispatch(q.title,
                                                    Classify(q.title)))},
                            !.resp = PredictResponse(Classify(q.title), FALSE)],
          tasks |-> Dispatch(q.title, Classify(q.title))]

\* room for the two tasks a request may create, for every request slot
TaskRoom ==
    BagCardinality(tasks) + 2 <= MaxTasks + 2 * (Cardinality(DOMAIN req) - 1)

\* the request in slot r goes through step 2 to its response
Finish(r, q) ==
    /\ TaskRoom
    /\ \E inferOut \in InferOutcomes :
          /\ req' = [req EXCEPT ![r] = Infer(q, inferOut).req]
          /\ tasks' = tasks (+) Infer(q, inferOut).tasks

\* the response of the hit path, built from the model's result for the title
\* instead of the cached value
HitResponseRecomputed(q, got) == PredictResponse(Classify(q.title), TRUE)

\* the response of the hit path: the cached topic, confidence, probabilities
HitResponse(q, got) == PredictResponse(got.val, TRUE)

\* the x-api-key header: absent, sent with an empty value, the configured
\* secret, another value
ApiKeys == {"none", "empty", "good", "bad"}

\* the header was sent and its value is not the configured secret
KeyDiffers(api_key) == api_key \notin {"none", "good"}

\* a check of the header that takes an empty value for a wrong one
KeyRejectedWhenSent(api_key) == api_key # "none" /\ api_key # "good"

\* "if x_api_key and x_api_key != os.getenv("API_KEY", "")": None and the
\* empty string are falsy
KeyRejected(api_key) == api_key \notin {"none", "empty"} /\ api_key # "good"

\* POST /predict with step 3 under the test of step 1: a request sent with
\* use_cache=false writes nothing to the cache
PredictBeginNoPopulate(r, title, use_cache, api_key) ==
    /\ phase = "serving"
    /\ req[r].pc = "idle"
    /\ LET q == [IdleReq EXCEPT !.title = title]
       IN  IF KeyRejected(api_key)
           THEN /\ req' = [req EXCEPT ![r] =
                              [q EXCEPT !.pc = "done", !.resp = ErrorResp(403)]]
                /\ tasks' = tasks
           ELSE IF ~model
           THEN /\ req' = [req EXCEPT ![r] =
                              [q EXCEPT !.pc = "done", !.resp = ErrorResp(503)]]
                /\ tasks' = tasks
           ELSE IF use_cache /\ redis_cache /\ rc.connected /\ ~Bypass(rc)
           THEN /\ req' = [req EXCEPT ![r] =
                              [q EXCEPT !.pc = "await_get", !.lookups = 1]]
                /\ tasks' = tasks
           ELSE IF use_cache
           THEN Finish(r, q)
           ELSE /\ TaskRoom
                /\ \E inferOut \in InferOutcomes :
                      /\ req' = [req EXCEPT ![r] = Infer(q, inferOut).req]
                      /\ tasks' = tasks (+)
                            [t \in {u \in BagToSet(Infer(q, inferOut).tasks) :
                                       u.kind = "log"} |-> 1]
    /\ UNCHANGED <<batch_model, now, phase, model, redis_cache, postgres_logger, rc, pg, store,
                   rows, call, lastOp, live>>

\* POST /predict arrives: the checks before the try block, then either the
\* cache lookup is awaited or the handler runs to its response
PredictBegin(r, title, use_cache, api_key) ==
    /\ phase = "serving"
    /\ req[r].pc = "idle"
    /\ LET q == [IdleReq EXCEPT !.title = title]
       IN  IF KeyRejected(api_key)
           THEN /\ req' = [req EXCEPT ![r] =
                              [q EXCEPT !.pc = "done", !.resp = ErrorResp(403)]]
                /\ tasks' = tasks
           ELSE IF ~model
           THEN /\ req' = [req EXCEPT ![r] =
                              [q EXCEPT !.pc = "done", !.resp = ErrorResp(503)]]
                /\ tasks' = tasks
           ELSE IF use_cache /\ redis_cache /\ rc.connected /\ ~Bypass(rc)
           THEN /\ req' = [req EXCEPT ![r] =
                              [q EXCEPT !.pc = "await_get", !.lookups = 1]]
                /\ tasks' = tasks
           ELSE Finish(r, q)
    /\ UNCHANGED <<batch_model, now, phase, model, redis_cache, postgres_logger, rc, pg, store,
                   rows, call, lastOp, live>>

\* the lookup's answer handled without the "except Exception" around the
\* lookup: the KeyError of a truthy value that lacks a key reaches the outer
\* handler and becomes a 500
PredictGetReplyUncaught(r, out) ==
    /\ req[r].pc = "await_get"
    /\ LET g == get_reply(store, req[r].title, out)
           q == [req[r] EXCEPT !.got = IF g.raised THEN None ELSE g.ret]
       IN  IF g.cleanup
           THEN /\ req' = [req EXCEPT ![r].pc = "await_del"]
                /\ tasks' = tasks
           ELSE IF ~g.raised /\ CacheHit(g.ret)
           THEN /\ req' = [req EXCEPT ![r] =
                              [q EXCEPT !.pc = "done",
                                        !.resp = HitResponse(q, g.ret)]]
                /\ tasks' = tasks
           ELSE IF ~g.raised /\ g.ret.some /\ Truthy(g.ret.val)
           THEN /\ req' = [req EXCEPT ![r] =
                              [q EXCEPT !.pc = "done",
                                        !.resp = ErrorResp(500)]]
                /\ tasks' = tasks
           ELSE Finish(r, q)
    /\ UNCHANGED <<batch_model, now, phase, model, redis_cache, postgres_logger, rc, pg, store,
                   rows, call, lastOp, live>>

\* the backend answers the lookup (or not): get returns and the handler goes
\* on, to the hit response, to inference, or get first awaits the deletion of
\* a corrupt entry.  An exception leaving get is caught by predict's own
\* "except Exception" around the lookup.
PredictGetReply(r, out) ==
    /\ req[r].pc = "await_get"
    /\ LET g == get_reply(store, req[r].title, out)
           q == [req[r] EXCEPT !.got = IF g.raised THEN None ELSE g.ret]
       IN  IF g.cleanup
           THEN /\ req' = [req EXCEPT ![r].pc = "await_del"]
                /\ tasks' = tasks
           ELSE IF ~g.raised /\ CacheHit(g.ret)
           THEN /\ req' = [req EXCEPT ![r] =
                              [q EXCEPT !.pc = "done",
                                        !.resp = HitResponse(q, g.ret)]]
                /\ tasks' = tasks
           ELSE Finish(r, q)
    /\ UNCHANGED <<batch_model, now, phase, model, redis_cache, postgres_logger, rc, pg, store,
                   rows, call, lastOp, live>>

\* the backend answers the DEL of the corruption handler: get returns None
\* and the handler goes on to inference; without an answer the request waits
PredictCleanupReply(r, out) ==
    /\ req[r].pc = "await_del"
    /\ IF out = "hang"
       THEN /\ req' = [req EXCEPT ![r].pc = "hung"]
            /\ tasks' = tasks
            /\ store' = store
       ELSE /\ Finish(r, req[r])
            /\ store' = get_cleanup(store, req[r].title, out)
    /\ UNCHANGED <<batch_model, now, phase, model, redis_cache, postgres_logger, rc, pg, rows,
                   call, lastOp, live>>

\* the response has been sent: the slot is free again
Retire(r) ==
    /\ req[r].pc = "done"
    /\ req' = [req EXCEPT ![r] = IdleReq]
    /\ UNCHANGED <<batch_model, now, phase, model, redis_cache, postgres_logger, rc, pg, store,
                   rows, tasks, call, lastOp, live>>

\* the event loop runs a detached redis_cache.set(title, prediction_result)
RunSetTask(t, out) ==
    /\ BagIn(t, tasks)
    /\ t.kind = "set"
    /\ store' = RedisCache_set(rc, store, t.text, t.payload, out).store
    /\ tasks' = tasks (-) SetToBag({t})
    /\ UNCHANGED <<batch_model, now, phase, model, redis_cache, postgres_logger, rc, pg, rows,
                   req, call, lastOp, live>>

\* the event loop runs a detached postgres_logger.log_prediction(...)
RunLogTask(t, out) ==
    /\ BagIn(t, tasks)
    /\ t.kind = "log"
    /\ Len(rows) < MaxRows \/ out \notin {"ok", "timeout_applied"}
    /\ rows' = log_prediction(pg, rows, t.text, t.payload, out).rows
    /\ tasks' = tasks (-) SetToBag({t})
    /\ UNCHANGED <<batch_model, now, phase, model, redis_cache, postgres_logger, rc, pg, store,
                   req, call, lastOp, live>>

\* a run of a store's block of startup() in which the constructor, the
\* reading of the settings or connect() raises
InitRaises == <<"raise">>

StartupCacheRuns == AttemptRuns \cup {InitRaises}

StartupLoggerRuns == LoggerAttemptRuns \cup {InitRaises}

\* block 2 of startup() with the handle kept when connect() returns False
StartCacheKeepHandle(run) ==
    [handle |-> Head(run) # "raise",
     obj |-> IF Head(run) = "raise" THEN FreshCache
             ELSE AfterConnect(FreshCache, run)]

\* block 2 of startup(): the handle is None when connect() returns False and
\* when anything in the block raises
StartCache(run) ==
    IF Head(run) = "raise"
    THEN [handle |-> FALSE, obj |-> FreshCache]
    ELSE [handle |-> connect(0, run).ret, obj |-> AfterConnect(FreshCache, run)]

\* block 3 of startup(): the same for the logger (the instance is dropped
\* with the handle)
StartLogger(run) ==
    IF Head(run) = "raise" \/ ~PostgresLogger_connect(0, run).ret
    THEN [handle |-> FALSE, obj |-> FreshLogger]
    ELSE [handle |-> TRUE, obj |-> AfterLoggerConnect(FreshLogger, run)]

\* startup(): the model is loaded first and a failure is re-raised; then the
\* cache and the logger are constructed and connected, and a connect() that
\* returns False or a block that raises leaves the handle None
Startup(modelOk, cacheRun, loggerRun) ==
    /\ phase = "boot"
    /\ IF ~modelOk
       THEN /\ phase' = "aborted"
            /\ UNCHANGED <<model, redis_cache, postgres_logger, rc, pg, rows>>
       ELSE /\ phase' = "serving"
            /\ model' = TRUE
            /\ rc' = StartCache(cacheRun).obj
            /\ redis_cache' = StartCache(cacheRun).handle
            /\ pg' = StartLogger(loggerRun).obj
            /\ postgres_logger' = StartLogger(loggerRun).handle
            /\ rows' = IF StartLogger(loggerRun).handle
                       THEN _create_tables(rows) ELSE rows
    /\ UNCHANGED <<store, req, tasks, call, lastOp, live, now, batch_model>>

\* the application object served without its startup event (TestClient(app)
\* outside a "with" block): the three globals keep their initial None
ServeWithoutStartup ==
    /\ phase = "boot"
    /\ phase' = "serving"
    /\ UNCHANGED <<model, redis_cache, postgres_logger, rc, pg, store, rows,
                   req, tasks, call, lastOp, live, now, batch_model>>

\* the store's clock advances
Tick ==
    /\ \E k \in Keys : store[k].present /\ store[k].ttl > 0
    /\ store' = redis_tick(store)
    /\ live' = LiveAfterTick(live)
    /\ UNCHANGED <<appVars, rc, call, lastOp>>

\* a writer other than this application sets a key, without expiry (of
\* interest only while the cache layer reads the store)
ExternalWrite(k, b) ==
    /\ rc.connected
    /\ store[k] # Entry(b, 0)
    /\ store' = [store EXCEPT ![k] = Entry(b, 0)]
    /\ live' = LiveAfterDrop(live, k)
    /\ UNCHANGED <<appVars, rc, call, lastOp>>

(***************************************************************************)
(* The served application.                                                 *)
(***************************************************************************)
\* what a query returned: a mapping (get_stats, get_topic_accuracy) or a
\* list (get_low_confidence_predictions)
NoResult == [dict |-> EmptyDict, list |-> <<>>]

AsResult(name, val) ==
    IF name = "get_low_confidence_predictions"
    THEN [NoResult EXCEPT !.list = val]
    ELSE [NoResult EXCEPT !.dict = val]

IdleCall == [pc |-> "idle", text |-> "", seen |-> Absent, expect |-> NoLive]

\* a number the metrics report, as the fraction <<numerator, denominator>> in
\* lowest terms
Zero == <<0, 1>>

\* no metrics computed: the "metrics" field of a response is None
NoMetrics == [keys |-> {}, overall |-> [accuracy |-> Zero,
                                        precision_macro |-> Zero,
                                        recall_macro |-> Zero,
                                        f1_macro |-> Zero,
                                        total_samples |-> 0,
                                        correct_predictions |-> 0],
              per_class |-> EmptyDict, labels |-> <<>>, matrix |-> <<>>]

\* what a batch handler was sent, did and answered: the texts of the request,
\* the positions at which inference raises, whether the handler was entered,
\* the titles given to the model, the titles for which a log write was
\* created, and the counts and the results of the response
NoBatch == [texts |-> <<>>, latency_ms |-> 0, raised |-> {}, entered |-> FALSE,
            inferred |-> <<>>, logged |-> <<>>, total_items |-> 0,
            successful |-> 0, failed |-> 0, predictions |-> <<>>]

\* the JSON object of an endpoint's response: the keys it has and the values
\* of those that are modelled
NoBody == [keys |-> {}, status |-> "", model_loaded |-> FALSE, ready |-> FALSE,
           redis_connected |-> FALSE, postgres_connected |-> FALSE,
           error |-> ""]

NoOp == [op |-> "none", raised |-> FALSE, via |-> "",
         val |-> None, ok |-> TRUE, seen |-> Absent,
         after |-> Absent, expect |-> NoLive, contacted |-> FALSE,
         out |-> "", from |-> 0, fails |-> 0, tries |-> 0, sleeps |-> <<>>,
         status |-> "", added |-> 0, result |-> NoResult,
         hours |-> 0, at |-> 0, code |-> 0, body |-> EmptyDict,
         y_true |-> <<>>, y_pred |-> <<>>, metrics |-> EmptyDict,
         batch |-> EmptyDict]

Init ==
    /\ phase = "boot"
    /\ model = FALSE
    /\ redis_cache = FALSE
    /\ postgres_logger = FALSE
    /\ rc = FreshCache
    /\ pg = FreshLogger
    /\ store = EmptyStore
    /\ rows = <<>>
    /\ req = [r \in Slots |-> IdleReq]
    /\ tasks = EmptyBag
    /\ call = IdleCall
    /\ lastOp = NoOp
    /\ live = [k \in Keys |-> NoLive]
    /\ now = 0
    /\ batch_model = FALSE

Next ==
    \/ /\ phase = "boot"
       /\ \E m \in BOOLEAN, c \in StartupCacheRuns, l \in StartupLoggerRuns :
             Startup(m, c, l)
    \/ ServeWithoutStartup
    \/ \E r \in Slots, t \in Texts, u \in BOOLEAN, a \in ApiKeys :
          PredictBegin(r, t, u, a)
    \/ \E r \in Slots, o \in GetOutcomes : PredictGetReply(r, o)
    \/ \E r \in Slots, o \in CleanupOutcomes : PredictCleanupReply(r, o)
    \/ \E r \in Slots : Retire(r)
    \/ \E t \in BagToSet(tasks), o \in SetOutcomes : RunSetTask(t, o)
    \/ \E t \in BagToSet(tasks), o \in LogOutcomes : RunLogTask(t, o)
    \/ Tick
    \/ \E k \in Keys, b \in AppForeignBytes : ExternalWrite(k, b)

Spec == Init /\ [][Next]_vars

(***************************************************************************)
(* One RedisCache instance driven through its API.  Calls are made one at  *)
(* a time; the store's clock and other writers run in between, also while  *)
(* a get awaits the backend.                                               *)
(***************************************************************************)
\* await cache.connect()
UConnect(outs) ==
    /\ phase = "unit"
    /\ call.pc = "idle"
    /\ rc.attempts < MaxAttempts
    /\ rc' = AfterConnect(rc, outs)
    /\ lastOp' = [NoOp EXCEPT !.op = "connect",
                              !.ok = connect(rc.attempts, outs).ret,
                              !.from = rc.attempts,
                              !.fails = LeadingFails(outs),
                              !.tries = connect(rc.attempts, outs).tries,
                              !.sleeps = connect(rc.attempts, outs).sleeps]
    /\ UNCHANGED <<appVars, store, call, live>>

\* cache.get(text) is called: the bypass returns at once, otherwise the GET
\* is sent and awaited
UGetBegin(text) ==
    /\ phase = "unit"
    /\ call.pc = "idle"
    /\ IF Bypass(rc)
       THEN /\ lastOp' = [NoOp EXCEPT !.op = "get",
                                      !.via = "bypass"]
            /\ call' = call
       ELSE /\ call' = [IdleCall EXCEPT !.pc = "await_get", !.text = text]
            /\ lastOp' = lastOp
    /\ UNCHANGED <<appVars, rc, store, live>>

\* the awaited GET ends: get returns, or goes on to delete a corrupt entry
UGetReply(out) ==
    /\ call.pc = "await_get"
    /\ LET k == _generate_key(call.text)
           g == get_reply(store, call.text, out)
       IN  IF g.cleanup
           THEN /\ call' = [call EXCEPT !.pc = "await_del", !.seen = store[k],
                                        !.expect = Standing(live[k])]
                /\ lastOp' = lastOp
           ELSE /\ call' = IdleCall
                /\ lastOp' = [NoOp EXCEPT !.op = "get",
                                 !.raised = g.raised, !.via = g.via,
                                 !.val = IF g.raised THEN None ELSE g.ret, !.seen = store[k],
                                 !.after = store[k], !.expect = Standing(live[k]),
                                 !.contacted = TRUE, !.out = out]
    /\ UNCHANGED <<appVars, rc, store, live>>

\* the DEL of the corruption handler ends, or never does
UGetCleanup(out) ==
    /\ call.pc = "await_del"
    /\ LET k == _generate_key(call.text)
       IN  IF out = "hang"
           THEN /\ call' = [call EXCEPT !.pc = "hung"]
                /\ UNCHANGED <<store, live, lastOp>>
           ELSE /\ store' = get_cleanup(store, call.text, out)
                /\ live' = IF out = "ok" THEN LiveAfterDrop(live, k) ELSE live
                /\ call' = IdleCall
                /\ lastOp' = [NoOp EXCEPT !.op = "get",
                                 !.via = "corrupt",
                                 !.seen = call.seen, !.after = store'[k],
                                 !.expect = call.expect,
                                 !.contacted = TRUE, !.out = "reply"]
    /\ UNCHANGED <<appVars, rc>>

\* await cache.set(text, prediction)
USet(text, prediction, out) ==
    /\ phase = "unit"
    /\ call.pc = "idle"
    /\ LET s == RedisCache_set(rc, store, text, prediction, out)
       IN  /\ store' = s.store
           /\ live' = IF s.contacted
                      THEN LiveAfterSet(live, text, prediction, out)
                      ELSE live
           /\ lastOp' = [NoOp EXCEPT !.op = "set", !.ok = s.ret,
                            !.contacted = s.contacted,
                            !.out = IF s.contacted THEN out ELSE ""]
    /\ UNCHANGED <<appVars, rc, call>>

\* await cache.delete(text)
UDelete(text, out) ==
    /\ phase = "unit"
    /\ call.pc = "idle"
    /\ IF ~Bypass(rc) /\ out = "hang"
       THEN /\ call' = [IdleCall EXCEPT !.pc = "hung", !.text = text]
            /\ UNCHANGED <<store, live, lastOp>>
       ELSE LET d == RedisCache_delete(rc, store, text, out)
                k == _generate_key(text)
            IN  /\ store' = d.store
                /\ live' = IF d.store # store THEN LiveAfterDrop(live, k)
                           ELSE live
                /\ call' = call
                /\ lastOp' = [NoOp EXCEPT !.op = "delete", !.ok = d.ret,
                                 !.contacted = ~Bypass(rc),
                                 !.out = IF Bypass(rc) THEN "" ELSE out]
    /\ UNCHANGED <<appVars, rc>>

\* await cache.flush_all()
UFlush(out) ==
    /\ phase = "unit"
    /\ call.pc = "idle"
    /\ IF ~Bypass(rc) /\ out = "hang"
       THEN /\ call' = [IdleCall EXCEPT !.pc = "hung"]
            /\ UNCHANGED <<store, live, lastOp>>
       ELSE LET f == flush_all(rc, store, out)
            IN  /\ store' = f.store
                /\ live' = IF ~Bypass(rc) /\ out = "ok"
                           THEN [k \in Keys |-> NoLive] ELSE live
                /\ call' = call
                /\ lastOp' = [NoOp EXCEPT !.op = "flush_all", !.ok = f.ret,
                                 !.contacted = ~Bypass(rc),
                                 !.out = IF Bypass(rc) THEN "" ELSE out]
    /\ UNCHANGED <<appVars, rc>>

\* await cache.health_check()
UHealth(out) ==
    /\ phase = "unit"
    /\ call.pc = "idle"
    /\ LET h == health_check(rc, out)
       IN  lastOp' = [NoOp EXCEPT !.op = "health_check", !.ok = h.connected,
                        !.status = h.status, !.contacted = h.contacted,
                        !.out = IF h.contacted THEN out ELSE ""]
    /\ UNCHANGED <<appVars, rc, store, call, live>>

\* await cache.close()
UClose(out) ==
    /\ phase = "unit"
    /\ call.pc = "idle"
    /\ rc' = RedisCache_close(rc, out)
    /\ lastOp' = [NoOp EXCEPT !.op = "close",
                              !.out = IF rc.client THEN out ELSE ""]
    /\ UNCHANGED <<appVars, store, call, live>>

InitCache ==
    /\ phase = "unit"
    /\ model = FALSE
    /\ redis_cache = FALSE
    /\ postgres_logger = FALSE
    /\ rc = FreshCache
    /\ pg = FreshLogger
    /\ store = EmptyStore
    /\ rows = <<>>
    /\ req = [r \in Slots |-> IdleReq]
    /\ tasks = EmptyBag
    /\ call = IdleCall
    /\ lastOp = NoOp
    /\ live = [k \in Keys |-> NoLive]
    /\ now = 0
    /\ batch_model = FALSE

NextCache ==
    \/ /\ call.pc = "idle"
       /\ \E outs \in AttemptRuns : UConnect(outs)
    \/ \E t \in Texts : UGetBegin(t)
    \/ \E o \in GetOutcomes : UGetReply(o)
    \/ \E o \in CleanupOutcomes : UGetCleanup(o)
    \/ /\ call.pc = "idle"
       /\ \E t \in Texts, p \in Results, o \in SetOutcomes : USet(t, p, o)
    \/ \E t \in Texts, o \in DeleteOutcomes : UDelete(t, o)
    \/ \E o \in DeleteOutcomes : UFlush(o)
    \/ \E o \in HealthOutcomes : UHealth(o)
    \/ \E o \in CloseOutcomes : UClose(o)
    \/ Tick
    \/ \E k \in Keys, b \in UnitForeignBytes : ExternalWrite(k, b)

CacheSpec == InitCache /\ [][NextCache]_vars

(***************************************************************************)
(* One PostgresLogger instance driven through its API, one call at a time. *)
(***************************************************************************)
\* the rows the table holds at most while the logger is driven alone
UnitRows == 2

\* the texts logged while the logger is driven alone
LogTexts == {"t1", "t2"}

\* "async with self.pool.acquire()" carries no timeout: the call may never
\* return
LoggerHang == {"hang"}

\* await db.connect()
LConnect(outs) ==
    /\ phase = "logunit"
    /\ call.pc = "idle"
    /\ pg.attempts < MaxAttempts
    /\ pg' = AfterLoggerConnect(pg, outs)
    /\ rows' = IF PostgresLogger_connect(pg.attempts, outs).ret
               THEN _create_tables(rows) ELSE rows
    /\ lastOp' = [NoOp EXCEPT
                    !.op = "connect",
                    !.ok = PostgresLogger_connect(pg.attempts, outs).ret,
                    !.from = pg.attempts,
                    !.fails = LeadingFails(outs),
                    !.tries = PostgresLogger_connect(pg.attempts, outs).tries,
                    !.sleeps = PostgresLogger_connect(pg.attempts, outs).sleeps]
    /\ UNCHANGED <<batch_model, now, phase, model, redis_cache, postgres_logger, rc, store, req,
                   tasks, call, live>>

\* await db.log_prediction(text, ...)
LLog(text, out) ==
    /\ phase = "logunit"
    /\ call.pc = "idle"
    /\ LET contacted == pg.connected /\ pg.client
           payload == LogTask(text, Classify(text), FALSE).payload
           l == log_prediction(pg, rows, text, payload, out)
       IN  IF contacted /\ out \in LoggerHang
           THEN /\ call' = [IdleCall EXCEPT !.pc = "hung", !.text = text]
                /\ UNCHANGED <<rows, lastOp>>
           ELSE /\ Len(l.rows) <= UnitRows
                /\ rows' = l.rows
                /\ call' = call
                /\ lastOp' = [NoOp EXCEPT !.op = "log_prediction",
                                 !.ok = l.ret, !.contacted = contacted,
                                 !.out = IF contacted THEN out ELSE "",
                                 !.added = Len(l.rows) - Len(rows)]
    /\ UNCHANGED <<batch_model, now, phase, model, redis_cache, postgres_logger, rc, pg, store,
                   req, tasks, live>>

\* await db.get_stats() / get_low_confidence_predictions() /
\* get_topic_accuracy()
LQuery(name, hours, out) ==
    /\ phase = "logunit"
    /\ call.pc = "idle"
    /\ IF pg.connected /\ pg.client /\ out \in LoggerHang
       THEN /\ call' = [IdleCall EXCEPT !.pc = "hung"]
            /\ lastOp' = lastOp
       ELSE LET q == Query(name, pg, rows, hours, out)
            IN  /\ call' = call
                /\ lastOp' = [NoOp EXCEPT !.op = name, !.raised = q.raised,
                                 !.hours = hours, !.at = now,
                                 !.result = AsResult(name, q.val), !.contacted = q.contacted,
                                 !.out = IF q.contacted THEN out ELSE ""]
    /\ UNCHANGED <<batch_model, now, phase, model, redis_cache, postgres_logger, rc, pg, store,
                   rows, req, tasks, live>>

\* await db.health_check()
LHealth(out) ==
    /\ phase = "logunit"
    /\ call.pc = "idle"
    /\ IF pg.connected /\ pg.client /\ out \in LoggerHang
       THEN /\ call' = [IdleCall EXCEPT !.pc = "hung"]
            /\ lastOp' = lastOp
       ELSE LET h == PostgresLogger_health_check(pg, out)
            IN  /\ call' = call
                /\ lastOp' = [NoOp EXCEPT !.op = "health_check",
                                 !.ok = h.connected, !.status = h.status,
                                 !.contacted = h.contacted,
                                 !.out = IF h.contacted THEN out ELSE ""]
    /\ UNCHANGED <<batch_model, now, phase, model, redis_cache, postgres_logger, rc, pg, store,
                   rows, req, tasks, live>>

\* await db.close()
LClose(out) ==
    /\ phase = "logunit"
    /\ call.pc = "idle"
    /\ pg' = PostgresLogger_close(pg, out)
    /\ lastOp' = [NoOp EXCEPT !.op = "close",
                              !.out = IF pg.client THEN out ELSE ""]
    /\ UNCHANGED <<batch_model, now, phase, model, redis_cache, postgres_logger, rc, store, rows,
                   req, tasks, call, live>>

\* an hour passes at the log store
Elapse ==
    /\ phase \in {"logunit", "serving"}
    /\ now < MaxNow
    /\ now' = now + 1
    /\ UNCHANGED <<phase, model, redis_cache, postgres_logger, rc, pg, store,
                   rows, req, tasks, call, lastOp, live, batch_model>>

InitLogger ==
    /\ phase = "logunit"
    /\ model = FALSE
    /\ redis_cache = FALSE
    /\ postgres_logger = FALSE
    /\ rc = FreshCache
    /\ pg = FreshLogger
    /\ store = EmptyStore
    /\ rows = <<>>
    /\ req = [r \in Slots |-> IdleReq]
    /\ tasks = EmptyBag
    /\ call = IdleCall
    /\ lastOp = NoOp
    /\ live = [k \in Keys |-> NoLive]
    /\ now = 0
    /\ batch_model = FALSE

NextLogger ==
    \/ /\ call.pc = "idle"
       /\ \E outs \in LoggerAttemptRuns : LConnect(outs)
    \/ \E t \in LogTexts, o \in LogOutcomes \cup LoggerHang : LLog(t, o)
    \/ \E n \in Queries, h \in Hours, o \in QueryOutcomes \cup LoggerHang :
          LQuery(n, h, o)
    \/ Elapse
    \/ \E o \in LoggerHealthOutcomes \cup LoggerHang : LHealth(o)
    \/ \E o \in CloseOutcomes : LClose(o)

LoggerSpec == InitLogger /\ [][NextLogger]_vars

(***************************************************************************)
(* The two layers side by side: a behaviour drives one cache instance or   *)
(* one logger instance.                                                    *)
(***************************************************************************)
InitLayers == InitCache \/ InitLogger

NextLayers == NextCache \/ NextLogger

LayerSpec == InitLayers /\ [][NextLayers]_vars

(***************************************************************************)
(* Properties of POST /predict (specification Spec).                       *)
(***************************************************************************)
Done(r) == req[r].pc = "done"

\* C1: cache transparency.  A /predict request that is answered returns the
\* topic, confidence and probabilities the model gives for its title, whether
\* the answer came from the cache (use_cache=true) or from the model.
C1_CacheTransparency ==
    \A r \in Slots :
        Done(r) /\ req[r].resp.status = 200 =>
            /\ req[r].resp.topic = Classify(req[r].title).topic
            /\ req[r].resp.confidence = Classify(req[r].title).confidence
            /\ req[r].resp.probabilities =
                   Classify(req[r].title).probabilities

\* C2: degraded-mode non-failure.  With the model loaded and a valid request
\* (neither 403 nor 503), whatever the cache and the log store do, the
\* request is answered, and unless the model itself raised the answer is a
\* successful prediction.
C2_DegradedNonFailure ==
    \A r \in Slots :
        /\ req[r].pc # "hung"
        /\ Done(r) /\ req[r].resp.status \notin {403, 503}
             /\ req[r].inferOut # "raise"
           => req[r].resp.status = 200

\* C3: cache-hit path.  When the lookup returned a stored result the response
\* carries that result with cached = true and the model was not invoked; a
\* response has cached = true only if no inference ran, and cached = false
\* whenever the model was invoked.
C3_CacheHitPath ==
    \A r \in Slots :
        Done(r) =>
            /\ CacheHit(req[r].got) =>
                   /\ req[r].resp = PredictResponse(req[r].got.val, TRUE)
                   /\ req[r].infer = 0
            /\ req[r].resp.cached => req[r].infer = 0 /\ CacheHit(req[r].got)
            /\ req[r].infer > 0 => ~req[r].resp.cached

\* a request answered from the cache
C3_Witness ==
    \E r \in Slots :
        /\ Done(r)
        /\ req[r].lookups = 1
        /\ CacheHit(req[r].got)
        /\ req[r].resp.cached
        /\ req[r].resp.topic = req[r].got.val.topic
        /\ req[r].infer = 0

C4_Step ==
    \A r \in Slots :
        ~Done(r) /\ req'[r].pc = "done" =>
            LET q == req'[r]
            IN  /\ q.resp.status \in {200, 403, 500, 503}
                /\ q.resp.status = 500 <=> q.inferOut = "raise"
                /\ q.inferOut = "raise" =>
                       /\ q.infer = 1
                       /\ q.dispatched = {}
                       /\ tasks' = tasks
                /\ q.infer <= 1
                /\ q.resp.status \in {403, 503} =>
                       q.infer = 0 /\ q.lookups = 0 /\ tasks' = tasks

\* C4: inference failure is the only stage that fails a request.  A request
\* ends with 500 exactly when model.predict raised; the model was then invoked
\* once and no cache write and no log write was created; no request invokes
\* the model more than once, and the only other error responses are the 403
\* and 503 sent before any stage ran.
C4_InferenceFailureOnly == [][C4_Step]_vars

\* the lookup went through, the model raised, the request ended with a 500
C4_Witness ==
    \E r \in Slots :
        /\ Done(r)
        /\ req[r].resp.status = 500
        /\ req[r].lookups = 1
        /\ req[r].infer = 1
        /\ req[r].dispatched = {}

C5_Step ==
    \A r \in Slots :
        /\ ~Done(r)
        /\ req'[r].pc = "done"
        /\ req'[r].resp.status = 200
        /\ ~req'[r].resp.cached
        => /\ tasks' = tasks (+) Dispatch(req'[r].title,
                                          Classify(req'[r].title))
           /\ rows' = rows
           /\ \A k \in Keys : store'[k] = store[k] \/ ~store'[k].present

\* C5: fire-and-forget writes.  The step that returns the response of the
\* miss path leaves the cache write and the log write it created pending:
\* neither has touched the store or the table when the response is out.
C5_FireAndForget == [][C5_Step]_vars

\* the response is out while both of its writes are still pending
C5_Witness ==
    \E r \in Slots :
        /\ Done(r)
        /\ req[r].resp.status = 200
        /\ ~req[r].resp.cached
        /\ req[r].dispatched = {"set", "log"}
        /\ BagIn(SetTask(req[r].title, Classify(req[r].title)), tasks)
        /\ BagIn(LogTask(req[r].title, Classify(req[r].title), FALSE), tasks)
        /\ store[_generate_key(req[r].title)] = Absent
        /\ rows = <<>>

(***************************************************************************)
(* Properties of the cache layer (specification CacheSpec).                *)
(***************************************************************************)
\* the last call that returned was a get whose GET the backend answered
GetAnswered == lastOp.op = "get" /\ lastOp.contacted /\ lastOp.out = "reply"

\* the entry a get met under its key is there and cannot be deserialized
SeenUndecodable ==
    /\ lastOp.seen.present
    /\ lastOp.seen.bytes # EmptyBytes
    /\ json_loads(lastOp.seen.bytes).exc # "none"

\* C6: RedisCache.get never raises.  Not connected, GET timed out, backend
\* raised, stored value not deserializable: get returns None; it returns a
\* value only when the backend answered with an entry stored under the key of
\* the text, and the value is that entry deserialized.
C6_GetNeverRaises ==
    lastOp.op = "get" =>
        /\ ~lastOp.raised
        /\ ~lastOp.contacted => lastOp.via = "bypass" /\ lastOp.val = None
        /\ lastOp.out = "timeout" => lastOp.via = "timeout" /\ lastOp.val = None
        /\ lastOp.out = "raise" => lastOp.via = "error" /\ lastOp.val = None
        /\ GetAnswered /\ SeenUndecodable =>
               lastOp.via \in {"corrupt", "error"} /\ lastOp.val = None
        /\ lastOp.val.some =>
               /\ GetAnswered
               /\ lastOp.seen.present
               /\ json_loads(lastOp.seen.bytes).exc = "none"
               /\ lastOp.val.val = json_loads(lastOp.seen.bytes).val

\* the backend raised during the GET and get returned None
C6_Witness ==
    /\ lastOp.op = "get"
    /\ lastOp.contacted
    /\ lastOp.out = "raise"
    /\ lastOp.via = "error"
    /\ ~lastOp.raised
    /\ lastOp.val = None

C8_RoundTrip ==
    GetAnswered /\ lastOp.expect.some /\ lastOp.expect.age < TTL =>
        /\ lastOp.via = "hit"
        /\ lastOp.val = Some(lastOp.expect.val)

\* a get returned what the most recent set of its key stored
C8_Witness ==
    /\ GetAnswered
    /\ lastOp.expect.some
    /\ lastOp.via = "hit"
    /\ lastOp.val = Some(lastOp.expect.val)
    /\ lastOp.val.val \in Results

\* C9: TTL expiry.  An entry written by set is in the store, with the rest of
\* its TTL, until TTL ticks have passed since the most recent set of its key,
\* and is gone from then on; a get answered after that is a miss.
C9_TtlExpiry ==
    /\ \A k \in Keys :
          live[k].some =>
              IF live[k].age < TTL
              THEN store[k] = Entry(json_dumps(live[k].val),
                                    TTL - live[k].age)
              ELSE ~store[k].present
    /\ GetAnswered /\ lastOp.expect.some /\ lastOp.expect.age >= TTL =>
          lastOp.via = "miss" /\ lastOp.val = None

\* a get, answered once the TTL of the most recent set had passed, missed
C9_Witness ==
    /\ GetAnswered
    /\ lastOp.expect.some
    /\ lastOp.expect.age = TTL
    /\ lastOp.via = "miss"
    /\ ~lastOp.seen.present

\* C10: corruption self-heal.  A get that meets an entry it cannot
\* deserialize returns None and leaves the key without an entry, so that the
\* next get of the key is an ordinary miss.
C10_CorruptionSelfHeal ==
    GetAnswered /\ SeenUndecodable =>
        /\ lastOp.val = None
        /\ ~lastOp.after.present

\* C11: key derivation.  The key a text addresses is 'pred:' followed by the
\* first 16 digits of its digest, the same in the async and the sync cache,
\* and no two different texts address the same entry: the entry a get(t) is
\* about to read was never set for another text.
C11_KeyDerivation ==
    call.pc = "await_get" =>
        LET k == _generate_key(call.text)
        IN  /\ k = <<"pred:", sha256_hexdigest(call.text)[1]>>
            /\ RedisCacheSync_key(call.text) = k
            /\ live[k].some => live[k].text = call.text

(***************************************************************************)
(* Properties of the two layers (specification LayerSpec unless said       *)
(* otherwise).                                                             *)
(***************************************************************************)
\* the connected flag of the instance under test
LayerConnected == IF phase = "logunit" THEN pg.connected ELSE rc.connected

\* the sleeps of a connect() that makes n attempts: 2^k seconds after the
\* k-th failure, none after the last attempt
Backoff(n) == [k \in 1 .. n - 1 |-> 2 ^ k]

DataOps == {"get", "set", "delete", "flush_all", "health_check",
            "log_prediction", "get_stats", "get_low_confidence_predictions",
            "get_topic_accuracy"}

\* C13: an instance that is not connected becomes connected by connect()
\* only: no step of get, set, delete, flush_all, health_check,
\* log_prediction, the queries or close turns the flag from false to true.
\* While the flag is false none of the data operations contacts the
\* backend: each returns through its bypass, the store changes by expiry
\* only and the table not at all.
C13_Step ==
    /\ ~rc.connected /\ rc'.connected => lastOp'.op = "connect"
    /\ ~pg.connected /\ pg'.connected => lastOp'.op = "connect"
    /\ ~LayerConnected /\ lastOp' # lastOp /\ lastOp'.op \in DataOps =>
          ~lastOp'.contacted /\ lastOp'.out = ""
    /\ ~LayerConnected => call'.pc \notin {"await_get", "await_del", "hung"}
    /\ ~LayerConnected /\ store' # store => store' = redis_tick(store)
    /\ ~LayerConnected => rows' = rows

BackendUnreachable ==
    /\ lastOp.contacted
    /\ lastOp.out \in {"timeout", "raise", "timeout_applied", "timeout_lost"}

\* C14: when a get, set or health_check on a connected cache layer finds
\* the backend unreachable (its call raises or times out), the layer is
\* Degraded from then on: is_connected() is false, and get and set bypass
\* the backend until connect() is called again.
C14_DegradedOnFailure ==
    lastOp.op \in {"get", "set", "health_check"} /\ BackendUnreachable =>
        ~(rc.connected /\ rc.client)

\* C15: flush_all() and delete(text) report the real outcome: each returns
\* true only if the backend operation was carried out successfully, and
\* false when the layer is not connected or the backend call fails.
C15_RealOutcome ==
    lastOp.op \in {"delete", "flush_all"} =>
        (lastOp.ok <=> lastOp.contacted /\ lastOp.out = "ok")

(***************************************************************************)
(* Properties of the two layers, continued (specification LayerSpec).      *)
(***************************************************************************)
\* the introspection call of the last health_check failed or timed out
HealthFailed == lastOp.contacted /\ lastOp.out \in {"timeout", "raise"}

\* C16 as the claim states it: health_check() does not raise, and when the
\* layer is not connected or the introspection call fails or times out the
\* payload has status "disconnected" and connected = false.
C16_DisconnectedOnFailure ==
    lastOp.op = "health_check" =>
        /\ ~lastOp.raised
        /\ ~LayerConnected \/ HealthFailed =>
              lastOp.status = "disconnected" /\ ~lastOp.ok

\* C16, amended: health_check() of either layer does not raise.  The payload
\* has status "disconnected" when the layer is not connected (the backend is
\* not contacted), status "unhealthy" when the introspection call fails or
\* times out, and status "healthy" otherwise; connected is true in the
\* payload exactly when the status is "healthy".
C16_HealthPayload ==
    lastOp.op = "health_check" =>
        /\ ~lastOp.raised
        /\ lastOp.status = (IF ~LayerConnected THEN "disconnected"
                            ELSE IF HealthFailed THEN "unhealthy"
                            ELSE "healthy")
        /\ lastOp.ok <=> lastOp.status = "healthy"
        /\ lastOp.contacted <=> LayerConnected

\* the introspection call of a connected logger failed
C16_Witness ==
    /\ phase = "logunit"
    /\ lastOp.op = "health_check"
    /\ pg.connected
    /\ HealthFailed
    /\ lastOp.status = "unhealthy"

LogCount(b) ==
    BagCardinality([t \in {x \in BagToSet(b) : x.kind = "log"} |-> b[t]])

\* the request in slot r receives its response in this step
Completes(r) == req[r].pc # "done" /\ req'[r].pc = "done"

\* C18: each served /predict request causes at most one log record.  The
\* step that answers a request creates exactly one log write when the
\* answer comes from inference and the logger handle is present, and none
\* when the answer comes from the cache, is a rejection (403, 503) or is the
\* 500 of a failed inference; no other step creates a log write.  A log
\* write that runs is consumed and appends one row or none to the table,
\* which changes in no other way.
C18_Step ==
    /\ \A r \in Slots :
          Completes(r) =>
             LogCount(tasks') - LogCount(tasks) =
                (IF /\ req'[r].resp.status = 200
                    /\ ~req'[r].resp.cached
                    /\ postgres_logger
                 THEN 1 ELSE 0)
    /\ (\A r \in Slots : ~Completes(r)) => LogCount(tasks') <= LogCount(tasks)
    /\ phase = "serving" /\ rows' # rows =>
          /\ LogCount(tasks') = LogCount(tasks) - 1
          /\ \E row \in {LogRow(t, LogTask(t, Classify(t), FALSE).payload) :
                           t \in Texts} : rows' = Append(rows, row)

C18_AtMostOneLog == [][C18_Step]_vars

\* a request answered by inference has left its log write behind, after the
\* write of an earlier request was stored
C18_Witness ==
    /\ Done("r1")
    /\ req["r1"].resp.status = 200
    /\ ~req["r1"].resp.cached
    /\ postgres_logger
    /\ LogCount(tasks) = 1
    /\ Len(rows) = 1

(***************************************************************************)
(* Properties of the two layers, continued (specification LayerSpec).      *)
(***************************************************************************)
\* the table before the step is the beginning of the table after it
RowsKept == Len(rows') >= Len(rows) /\ SubSeq(rows', 1, Len(rows)) = rows

\* C19: the prediction log is append-only.  Across log_prediction, the
\* three queries, health_check, connect with its schema creation, close and
\* the cache's flush_all (what /cache/clear calls), every row present before
\* a step is present and unchanged after it, and the only change is one new
\* row appended by log_prediction.
C19_Step ==
    /\ RowsKept
    /\ Len(rows') <= Len(rows) + 1
    /\ rows' # rows =>
          /\ lastOp'.op = "log_prediction"
          /\ lastOp'.added = 1
          /\ lastOp'.out \in {"ok", "timeout_applied"}

C19_AppendOnly == [][C19_Step]_vars

\* a logger reconnected, its schema creation run over a table holding rows
C19_Witness ==
    /\ phase = "logunit"
    /\ lastOp.op = "connect" /\ lastOp.ok
    /\ Len(rows) = UnitRows
    /\ rows[1] # rows[2]

(***************************************************************************)
(* Properties of the logger, continued (specification LoggerSpec).         *)
(***************************************************************************)
\* the last query answered with its empty result: {} or []
EmptyResult == lastOp.result = NoResult

\* what a query that returned has answered: it did not raise.  When the logger is not connected the store is not queried
\* and the result is empty; when the query fails the result is empty; a
\* query that succeeds returns what the table holds (get_stats then carries
\* its '_summary' entry).
C20_Answer ==
    lastOp.op \in Queries =>
        /\ ~lastOp.raised
        /\ lastOp.contacted <=> pg.connected
        /\ ~lastOp.contacted \/ lastOp.out # "ok" => EmptyResult
        /\ lastOp.contacted /\ lastOp.out = "ok" /\ lastOp.at = now =>
              lastOp.result =
                 AsResult(lastOp.op,
                          Query(lastOp.op, pg, rows, lastOp.hours, "ok").val)
        /\ lastOp.op = "get_stats" /\ lastOp.contacted /\ lastOp.out = "ok" =>
              "_summary" \in DOMAIN lastOp.result.dict

\* a step in which a query returns leaves the logger and the table as they
\* were
C20_Frame ==
    lastOp'.op \in Queries => rows' = rows /\ pg' = pg

\* C20: the read-only queries get_stats, get_low_confidence_predictions and
\* get_topic_accuracy never raise: when the logger is not connected or the
\* store query fails each returns its empty result (empty mapping or empty
\* list), and a query changes no state of the logger or of the table.
C20_QueriesNeverRaise == []C20_Answer /\ [][C20_Frame]_vars

\* a connected logger holding a row whose get_stats query failed: {}
C20_Witness ==
    /\ lastOp.op = "get_stats"
    /\ pg.connected
    /\ Len(rows) > 0
    /\ lastOp.contacted /\ lastOp.out = "raise"
    /\ ~lastOp.raised
    /\ EmptyResult

\* the positions of the rows whose timestamp lies in the trailing window of
\* the last query
WindowRows ==
    {i \in 1 .. Len(rows) : rows[i].timestamp > now - lastOp.hours}

is_connected(c) == c.connected

\* the attributes __init__ gives a PostgresLogger instance
PostgresLogger_attrs ==
    {"config", "pool", "min_size", "max_size", "_connected",
     "_connection_attempts", "_max_retry_attempts"}

hasattr(attrs, name) == name \in attrs

\* a liveness body that is given only once the model is loaded
health_body_needs_model ==
    IF model
    THEN [NoBody EXCEPT !.keys = {"status", "timestamp", "model_loaded"},
                        !.status = "healthy", !.model_loaded = TRUE]
    ELSE [NoBody EXCEPT !.keys = {"detail"}]

\* GET /health
health_body ==
    [NoBody EXCEPT !.keys = {"status", "timestamp", "model_loaded"},
                   !.status = "healthy", !.model_loaded = model]

Health ==
    /\ phase = "serving"
    /\ lastOp' = [NoOp EXCEPT !.op = "health", !.code = 200,
                              !.body = health_body, !.at = now]
    /\ UNCHANGED <<batch_model, now, phase, model, redis_cache, postgres_logger, rc, pg, store,
                   rows, req, tasks, call, live>>

\* GET /readiness: the HTTPException raised for an unloaded model is caught
\* by the handler's own "except Exception" and raised again with status 503
readiness_response ==
    IF ~model
    THEN [code |-> 503, body |-> [NoBody EXCEPT !.keys = {"detail"}]]
    ELSE LET redis_status == redis_cache /\ is_connected(rc)
             postgres_status ==
                 /\ postgres_logger
                 /\ hasattr(PostgresLogger_attrs, "connection")
                 /\ pg.client   \* ".connection is not None", were it there
         IN  [code |-> 200,
              body |-> [NoBody EXCEPT
                          !.keys = {"ready", "model_loaded", "redis_connected",
                                    "postgres_connected"},
                          !.ready = redis_status /\ postgres_status,
                          !.model_loaded = model,
                          !.redis_connected = redis_status,
                          !.postgres_connected = postgres_status]]

Readiness ==
    /\ phase = "serving"
    /\ lastOp' = [NoOp EXCEPT !.op = "readiness",
                              !.code = readiness_response.code,
                              !.body = readiness_response.body, !.at = now]
    /\ UNCHANGED <<batch_model, now, phase, model, redis_cache, postgres_logger, rc, pg, store,
                   rows, req, tasks, call, live>>

\* GET /stats?hours=N
stats_response(hours, out) ==
    IF ~postgres_logger
    THEN [code |-> 200, contacted |-> FALSE, dict |-> EmptyDict,
          body |-> [NoBody EXCEPT !.keys = {"error"},
                                  !.error = "PostgreSQL not available"]]
    ELSE LET q == get_stats(pg, rows, hours, out)
         IN  IF q.raised
             THEN [code |-> 500, contacted |-> q.contacted, dict |-> EmptyDict,
                   body |-> [NoBody EXCEPT !.keys = {"detail"}]]
             ELSE [code |-> 200, contacted |-> q.contacted, dict |-> q.val,
                   body |-> [NoBody EXCEPT !.keys = DOMAIN q.val]]

Stats(hours, out) ==
    /\ phase = "serving"
    /\ LET s == stats_response(hours, out)
       IN  lastOp' = [NoOp EXCEPT !.op = "stats", !.code = s.code,
                                  !.body = s.body, !.hours = hours,
                                  !.at = now, !.contacted = s.contacted,
                                  !.out = IF s.contacted THEN out ELSE "",
                                  !.result = AsResult("get_stats", s.dict)]
    /\ UNCHANGED <<batch_model, now, phase, model, redis_cache, postgres_logger, rc, pg, store,
                   rows, req, tasks, call, live>>

\* the log write a served prediction has detached runs
ServedLog(text, out) ==
    /\ phase = "serving"
    /\ model /\ postgres_logger
    /\ Len(rows) < UnitRows
    /\ rows' = log_prediction(pg, rows, text,
                              LogTask(text, Classify(text), FALSE).payload,
                              out).rows
    /\ rows' # rows
    /\ UNCHANGED <<batch_model, now, phase, model, redis_cache, postgres_logger, rc, pg, store,
                   req, tasks, call, lastOp, live>>

NextEndpoints ==
    \/ /\ phase = "boot"
       /\ \E m \in BOOLEAN, c \in StartupCacheRuns, l \in StartupLoggerRuns :
             Startup(m, c, l)
    \/ ServeWithoutStartup
    \/ Health
    \/ Readiness
    \/ \E h \in Hours, o \in QueryOutcomes : Stats(h, o)
    \/ \E t \in LogTexts, o \in LogOutcomes : ServedLog(t, o)
    \/ Elapse

EndpointSpec == Init /\ [][NextEndpoints]_vars

(***************************************************************************)
(* Properties of the probes and of GET /stats (specification EndpointSpec). *)
(***************************************************************************)
\* the log store is unavailable to the request that was answered last: the
\* handle is disabled, or the logger is not connected, or its query failed
StoreUnavailable ==
    \/ ~postgres_logger
    \/ ~pg.connected
    \/ lastOp.contacted /\ lastOp.out # "ok"

\* C22: GET /stats returns an empty object, and never an error, whenever the
\* log store is unavailable, both when the logger failed to connect at
\* startup (handle disabled) and when the store has become unreachable after
\* a successful startup.
C22_EmptyWhenUnavailable ==
    lastOp.op = "stats" /\ StoreUnavailable =>
        /\ lastOp.code = 200
        /\ lastOp.body.keys = {}

(***************************************************************************)
(* The statuses of POST /predict (specification Spec).                     *)
(***************************************************************************)
\* the step is the arrival of a request in slot r with header value a
Arrives(r, a) ==
    /\ req[r].pc = "idle"
    /\ req'[r].pc # "idle"
    /\ \E u \in BOOLEAN : PredictBegin(r, req'[r].title, u, a)

\* nothing downstream was done for the request in slot r
NothingDownstream(r) ==
    /\ req[r].lookups = 0
    /\ req[r].infer = 0
    /\ req[r].dispatched = {}

\* POST /predict maps failures to statuses in a fixed order: a presented
\* header that differs from the configured secret yields 403, whatever else
\* holds (the statement of C23 as it was written).
C23_MismatchIs403 ==
    [][\A r \in Slots, a \in ApiKeys :
          Arrives(r, a) /\ KeyDiffers(a) => req'[r].resp.status = 403]_vars

\* the arrival of a request: 403 exactly for a non-empty header that is not
\* the secret, even with the model unloaded; otherwise 503 exactly when the
\* model is unloaded; and in both cases the response is final and no task
\* is created
C23_Step ==
    \A r \in Slots, a \in ApiKeys :
        Arrives(r, a) =>
            /\ req'[r].resp.status = 403 <=> a = "bad"
            /\ req'[r].resp.status = 503 <=> a # "bad" /\ ~model
            /\ req'[r].resp.status \in {403, 503} =>
                  /\ req'[r].pc = "done"
                  /\ tasks' = tasks
                  /\ store' = store /\ rows' = rows

\* a response that is final: 403 and 503 come with no cache lookup, no
\* inference and no detached write; an inference that raised gives 500
C23_Final ==
    \A r \in Slots :
        Done(r) =>
            /\ req[r].resp.status \in {403, 503} => NothingDownstream(r)
            /\ req[r].resp.status = 503 => ~model
            /\ req[r].inferOut = "raise" => req[r].resp.status = 500
            /\ req[r].resp.status = 500 => req[r].inferOut = "raise" /\ model

\* C23: POST /predict maps failures to statuses in a fixed order: a presented,
\* non-empty shared-secret header that differs from the configured secret
\* yields 403 (checked first; a request without the header or with an empty
\* one is not rejected), an unloaded model yields 503, an inference error
\* yields 500; in the 403 and 503 cases no cache lookup, inference, cache
\* write or log write happens.
C23_StatusOrder == []C23_Final /\ [][C23_Step]_vars

\* a request with a wrong key was refused while the model was unloaded
C23_Witness ==
    \E r \in Slots :
        /\ Done(r) /\ req[r].resp.status = 403
        /\ ~model /\ phase = "serving"
        /\ NothingDownstream(r)

\* C24: GET /readiness returns 503 exactly when the model is not loaded;
\* otherwise redis_connected is true iff the cache layer is connected,
\* postgres_connected is true iff the analytics logger is connected, and
\* ready is true iff both are connected.
C24_ReadinessTruthful ==
    lastOp.op = "readiness" =>
        /\ lastOp.code = 503 <=> ~model
        /\ lastOp.code # 503 =>
              /\ lastOp.code = 200
              /\ lastOp.body.redis_connected <=> redis_cache /\ rc.connected
              /\ lastOp.body.postgres_connected <=>
                    postgres_logger /\ pg.connected
              /\ lastOp.body.ready <=>
                    /\ redis_cache /\ rc.connected
                    /\ postgres_logger /\ pg.connected

\* a step that answers GET /health
HealthAnswered == lastOp'.op = "health" /\ lastOp' # lastOp

\* C25: GET /health answers 200 with a status field in every reachable
\* process state, whether or not the model is loaded and whether the cache
\* or the log store is connected, degraded or disabled; it performs no call
\* to either store.
C25_HealthAlways ==
    /\ [](phase = "serving" => ENABLED Health)
    /\ [](lastOp.op = "health" =>
             /\ lastOp.code = 200
             /\ "status" \in lastOp.body.keys
             /\ ~lastOp.contacted)
    /\ [][HealthAnswered =>
             UNCHANGED <<store, rows, rc, pg, tasks, call>>]_vars

\* /health was answered with the model unloaded and both handles disabled
C25_Witness ==
    /\ lastOp.op = "health" /\ lastOp.code = 200
    /\ ~model /\ ~redis_cache /\ ~postgres_logger

(***************************************************************************)
(* Startup (specification EndpointSpec).                                   *)
(***************************************************************************)
\* the store's block of startup() ends with a connected layer: nothing
\* raises and one of the attempts connect() makes succeeds
BlockConnects(run) ==
    /\ Head(run) # "raise"
    /\ \E i \in 1 .. _max_retry_attempts : run[i] = "ok"

\* a run of startup(): it completes exactly when the model loads; when the
\* model does not load neither store has been contacted; when it loads each
\* handle is set exactly when its block connected
C27_Step ==
    phase = "boot" /\ phase' # "boot" =>
        \A m \in BOOLEAN, c \in StartupCacheRuns, l \in StartupLoggerRuns :
            Startup(m, c, l) =>
                /\ phase' = "serving" <=> m
                /\ model' <=> m
                /\ ~m => /\ phase' = "aborted"
                         /\ rc' = FreshCache /\ pg' = FreshLogger
                         /\ ~redis_cache' /\ ~postgres_logger'
                /\ m => /\ redis_cache' <=> BlockConnects(c)
                        /\ postgres_logger' <=> BlockConnects(l)
                        /\ redis_cache' => rc'.connected
                        /\ postgres_logger' => pg'.connected

\* after an aborted startup nothing is ever served; a process that serves
\* with the model unloaded never ran startup()
C27_Served ==
    /\ phase = "aborted" => ~model /\ lastOp = NoOp /\ rows = <<>>
    /\ phase = "serving" /\ ~model =>
          /\ ~redis_cache /\ ~postgres_logger
          /\ rc = FreshCache /\ pg = FreshLogger

MetricLabels == {"TECH", "BUSINESS", "SPORTS"}

RECURSIVE GCD(_, _)
GCD(a, b) == IF b = 0 THEN a ELSE GCD(b, a % b)

\* a division that leaves 0/0 undefined (zero_division=np.nan)
RatioOrNaN(n, d) == IF d = 0 THEN <<0, 0>> ELSE <<n \div GCD(n, d), d \div GCD(n, d)>>

\* n / d as sklearn reports it with zero_division=0
Ratio(n, d) == IF d = 0 THEN Zero ELSE <<n \div GCD(n, d), d \div GCD(n, d)>>

RatAdd(x, y) == Ratio(x[1] * y[2] + y[1] * x[2], x[2] * y[2])

RECURSIVE SeqSum(_)
SeqSum(xs) == IF xs = <<>> THEN 0 ELSE Head(xs) + SeqSum(Tail(xs))

\* [1 if x == cls else 0 for x in ys]
OneHot(ys, cls) == [i \in 1 .. Len(ys) |-> IF ys[i] = cls THEN 1 ELSE 0]

\* the number of positions where both indicator lists have 1
TruePositives(t, p) == SeqSum([i \in 1 .. Len(t) |-> t[i] * p[i]])

\* recall_score under the name of precision_score
precision_score_of_truth(t, p) == Ratio(TruePositives(t, p), SeqSum(t))

\* precision_score(cls_true, cls_pred, zero_division=0)
precision_score(t, p) == Ratio(TruePositives(t, p), SeqSum(p))

\* recall_score(cls_true, cls_pred, zero_division=0)
recall_score(t, p) == Ratio(TruePositives(t, p), SeqSum(t))

\* f1_score(cls_true, cls_pred, zero_division=0)
f1_score(t, p) == Ratio(2 * TruePositives(t, p), SeqSum(t) + SeqSum(p))

\* accuracy_score(y_true, y_pred)
accuracy_score(y_true, y_pred) ==
    Ratio(Cardinality({i \in 1 .. Len(y_true) : y_true[i] = y_pred[i]}),
          Len(y_true))

\* the mean over the classes of a per-class score (average='macro')
RECURSIVE RatSum(_, _)
RatSum(f, S) ==
    IF S = {} THEN Zero
    ELSE LET c == CHOOSE x \in S : TRUE
         IN  RatAdd(f[c], RatSum(f, S \ {c}))

Macro(f) ==
    LET total == RatSum(f, DOMAIN f)
    IN  Ratio(total[1], total[2] * Cardinality(DOMAIN f))

\* the place of a label in the order of Python's string comparison
LabelRank(c) ==
    CASE c = "BUSINESS" -> 1
      [] c = "SPORTS"   -> 2
      [] c = "TECH"     -> 3

\* sorted(S) for a set of labels
sorted(S) ==
    CHOOSE s \in [1 .. Cardinality(S) -> S] :
        \A i, j \in 1 .. Cardinality(S) :
            i < j => LabelRank(s[i]) < LabelRank(s[j])

\* a confusion matrix with the predicted labels on the rows
confusion_matrix_transposed(y_true, y_pred, labels) ==
    [i \in 1 .. Len(labels) |->
        [j \in 1 .. Len(labels) |->
            Cardinality({k \in 1 .. Len(y_true) :
                            y_pred[k] = labels[i] /\ y_true[k] = labels[j]})]]

\* confusion_matrix(y_true, y_pred, labels=classes).tolist(): row i is the
\* true label labels[i], column j the predicted label labels[j]
confusion_matrix(y_true, y_pred, labels) ==
    [i \in 1 .. Len(labels) |->
        [j \in 1 .. Len(labels) |->
            Cardinality({k \in 1 .. Len(y_true) :
                            y_true[k] = labels[i] /\ y_pred[k] = labels[j]})]]

calculate_metrics(y_true, y_pred) ==
    IF y_true = <<>> \/ y_pred = <<>> \/ Len(y_true) # Len(y_pred)
    THEN [NoMetrics EXCEPT !.keys = {"error"}]
    ELSE LET classes == {y_true[i] : i \in 1 .. Len(y_true)} \cup
                        {y_pred[i] : i \in 1 .. Len(y_pred)}
             per_class ==
                 [cls \in classes |->
                     [precision |-> precision_score(OneHot(y_true, cls),
                                                    OneHot(y_pred, cls)),
                      recall |-> recall_score(OneHot(y_true, cls),
                                              OneHot(y_pred, cls)),
                      f1 |-> f1_score(OneHot(y_true, cls), OneHot(y_pred, cls)),
                      support |-> SeqSum(OneHot(y_true, cls))]]
         IN  [keys |-> {"overall", "per_class", "confusion_matrix"},
              overall |->
                 [accuracy |-> accuracy_score(y_true, y_pred),
                  precision_macro |->
                     Macro([c \in classes |-> per_class[c].precision]),
                  recall_macro |->
                     Macro([c \in classes |-> per_class[c].recall]),
                  f1_macro |-> Macro([c \in classes |-> per_class[c].f1]),
                  total_samples |-> Len(y_true),
                  correct_predictions |->
                     Cardinality({i \in 1 .. Len(y_true) :
                                     y_true[i] = y_pred[i]})],
              per_class |-> per_class,
              labels |-> sorted(classes),
              matrix |-> confusion_matrix(y_true, y_pred, sorted(classes))]

\* the label lists the metrics are computed for
LabelLists == UNION {[1 .. n -> MetricLabels] : n \in 0 .. MetricsLen}

\* no request is being answered and no detached write is pending
BatchIdle == phase = "batch" /\ lastOp.op = "none" /\ tasks = EmptyBag

\* a call of calculate_metrics; the function reads no state, and it is
\* applied while the table is empty
Metrics(y_true, y_pred) ==
    /\ BatchIdle
    /\ rows = <<>>
    /\ lastOp' = [NoOp EXCEPT !.op = "calculate_metrics",
                              !.y_true = y_true, !.y_pred = y_pred,
                              !.metrics = calculate_metrics(y_true, y_pred)]
    /\ UNCHANGED <<batch_model, now, phase, model, redis_cache,
                   postgres_logger, rc, pg, store, rows, req, tasks, call,
                   live>>

\* the answer has been given
BatchRetire ==
    /\ phase = "batch"
    /\ lastOp.op # "none"
    /\ lastOp' = NoOp
    /\ UNCHANGED <<batch_model, now, phase, model, redis_cache,
                   postgres_logger, rc, pg, store, rows, req, tasks, call,
                   live>>

(***************************************************************************)
(* Validation of the request bodies and the two batch handlers: POST       *)
(* /predict/batch of main.py and POST / of routes/batch_predict.py (the     *)
(* batch evaluator).                                                        *)
(***************************************************************************)
\* Field(..., min_length=1, max_length=512)
min_length == 1

max_length == 512

\* BatchPredictionRequest.titles: Field(..., max_items=100)
titles_max_items == 100

\* BatchRequest.items: Field(..., max_items=1000)
items_max_items == 1000

\* the texts sent: the empty string, two titles, a text of 513 characters
SentTexts == {"", "t1", "t2", "long"}

\* len(text)
TitleLen(text) ==
    CASE text = ""     -> 0
      [] text = "long" -> max_length + 1
      [] OTHER         -> 2

\* a length check without the upper limit
ValidTitleNonEmpty(text) == min_length <= TitleLen(text)

\* the constraint of PredictRequest.title and of BatchItem.title
ValidTitle(text) ==
    min_length <= TitleLen(text) /\ TitleLen(text) <= max_length

\* what the classifier answers for any text it is given
ClassifyAny(text) == IF text \in Texts THEN Classify(text) ELSE Classify("t1")

\* the body of POST /predict is validated before predict() is called: 422,
\* or the handler is entered (its steps are those of PredictBegin)
PredictRequest_validate(title) ==
    /\ BatchIdle
    /\ lastOp' = [NoOp EXCEPT
                    !.op = "predict_request",
                    !.code = IF ValidTitle(title) THEN 0 ELSE 422,
                    !.batch = [NoBatch EXCEPT
                                 !.texts = <<title>>,
                                 !.entered = ValidTitle(title)]]
    /\ UNCHANGED <<batch_model, now, phase, model, redis_cache,
                   postgres_logger, rc, pg, store, rows, req, tasks, call,
                   live>>

\* the total latencies (ms) a batch is measured to take
BatchLatencies == {12, 30}

\* model.predict_batch(texts): one dict per text, in input order, with the
\* text cut to 50 characters
predict_batch(texts) ==
    [i \in 1 .. Len(texts) |->
        [text |-> IF TitleLen(texts[i]) > 50 THEN "long[:50]..." ELSE texts[i],
         topic |-> ClassifyAny(texts[i]).topic,
         confidence |-> ClassifyAny(texts[i]).confidence]]

\* one log write of the batch handler: log_prediction(text=title,
\* prediction=pred['topic'], confidence=pred['confidence'],
\* latency_ms=..., model_version=...), cached left at its default
BatchLogTask(title, pred, latency) ==
    [kind |-> "log", text |-> title,
     payload |-> [prediction |-> pred.topic, confidence |-> pred.confidence,
                  model_version |-> "week4_bert_final", cached |-> FALSE,
                  latency_ms |-> latency]]

\* the loop of log writes with the whole latency passed for every item
RECURSIVE LogTasksUndivided(_, _, _, _)
LogTasksUndivided(titles, predictions, ms, n) ==
    IF titles = <<>> \/ predictions = <<>> THEN EmptyBag
    ELSE SetToBag({BatchLogTask(Head(titles), Head(predictions), <<ms, 1>>)})
            (+) LogTasksUndivided(Tail(titles), Tail(predictions), ms, n)

\* "for title, pred in zip(request.titles, predictions): create_task(...)"
\* with latency_ms / len(request.titles), n being len(request.titles)
RECURSIVE LogTasksOf(_, _, _, _)
LogTasksOf(titles, predictions, ms, n) ==
    IF titles = <<>> \/ predictions = <<>> THEN EmptyBag
    ELSE SetToBag({BatchLogTask(Head(titles), Head(predictions),
                                <<ms \div GCD(ms, n), n \div GCD(ms, n)>>)})
            (+) LogTasksOf(Tail(titles), Tail(predictions), ms, n)

\* the outcomes of model.predict_batch(request.titles)
BatchInferOutcomes == {"ok", "raise"}

\* POST /predict/batch of main.py
main_batch_predict(titles, out, ms) ==
    IF Len(titles) > titles_max_items
    THEN [code |-> 422, entered |-> FALSE, inferred |-> <<>>,
          logged |-> <<>>, count |-> 0, predictions |-> <<>>,
          latency_ms |-> 0, writes |-> EmptyBag]
    ELSE IF ~model
    THEN [code |-> 503, entered |-> TRUE, inferred |-> <<>>,
          logged |-> <<>>, count |-> 0, predictions |-> <<>>,
          latency_ms |-> 0, writes |-> EmptyBag]
    ELSE IF out = "raise"
    THEN [code |-> 500, entered |-> TRUE, inferred |-> titles,
          logged |-> <<>>, count |-> 0, predictions |-> <<>>,
          latency_ms |-> 0, writes |-> EmptyBag]
    ELSE LET predictions == predict_batch(titles)
         IN  [code |-> 200, entered |-> TRUE, inferred |-> titles,
              logged |-> IF postgres_logger THEN titles ELSE <<>>,
              count |-> Len(predictions), predictions |-> predictions,
              latency_ms |-> ms,
              writes |-> IF postgres_logger
                         THEN LogTasksOf(titles, predictions, ms, Len(titles))
                         ELSE EmptyBag]

TitleLists == UNION {[1 .. n -> SentTexts] : n \in 0 .. MaxTitles}

MainBatch(titles, out, ms) ==
    /\ BatchIdle
    /\ LET b == main_batch_predict(titles, out, ms)
       IN  /\ BagCardinality(tasks) + BagCardinality(b.writes) <= MaxTasks
           /\ tasks' = tasks (+) b.writes
           /\ lastOp' = [NoOp EXCEPT
                           !.op = "predict_batch", !.code = b.code,
                           !.batch = [NoBatch EXCEPT
                                        !.texts = titles,
                                        !.entered = b.entered,
                                        !.inferred = b.inferred,
                                        !.logged = b.logged,
                                        !.total_items = b.count,
                                        !.predictions = b.predictions,
                                        !.latency_ms = b.latency_ms]]
    /\ UNCHANGED <<batch_model, now, phase, model, redis_cache,
                   postgres_logger, rc, pg, store, rows, req, call, live>>

\* set_model(bert_model): the call startup() of main.py has as a comment,
\* made by an application that mounts the router
set_model ==
    /\ BatchIdle
    /\ model /\ ~batch_model
    /\ batch_model' = TRUE
    /\ UNCHANGED <<now, phase, model, redis_cache, postgres_logger, rc, pg,
                   store, rows, req, tasks, call, lastOp, live>>

\* the items sent to the batch evaluator: ground_truth "" stands for None
BatchItems ==
    {[title |-> "t1", ground_truth |-> "BUSINESS"],
     [title |-> "t2", ground_truth |-> ""],
     [title |-> "", ground_truth |-> ""]}

ItemLists == UNION {[1 .. n -> BatchItems] : n \in 0 .. MaxItems}

\* one pass of the loop body for an item: model.predict raises, or one of
\* the subscriptions result['prediction'], result['confidence'] raises
\* KeyError, or a PredictionResult is built
evaluate_item(item, raises) ==
    IF raises
    THEN [ok |-> FALSE, title |-> item.title, prediction |-> "",
          ground_truth |-> item.ground_truth]
    ELSE LET result == ClassifyAny(item.title)
         IN  IF {"prediction", "confidence"} \subseteq DOMAIN result
             THEN [ok |-> TRUE, title |-> item.title,
                   prediction |-> result.prediction,
                   ground_truth |-> item.ground_truth]
             ELSE [ok |-> FALSE, title |-> item.title, prediction |-> "",
                   ground_truth |-> item.ground_truth]

\* POST / of the batch evaluator, for the items and the set of positions at
\* which model.predict raises
batch_predict(items, include_metrics, raised) ==
    IF \/ Len(items) > items_max_items
       \/ \E i \in 1 .. Len(items) : ~ValidTitle(items[i].title)
    THEN [code |-> 422, entered |-> FALSE, inferred |-> <<>>,
          predictions |-> <<>>, metrics |-> NoMetrics]
    ELSE IF ~batch_model
    THEN [code |-> 503, entered |-> TRUE, inferred |-> <<>>,
          predictions |-> <<>>, metrics |-> NoMetrics]
    ELSE LET done == [i \in 1 .. Len(items) |->
                         evaluate_item(items[i], i \in raised)]
             predictions_list == SelectSeq(done, LAMBDA d : d.ok)
             scored == SelectSeq(predictions_list,
                                 LAMBDA d : d.ground_truth # "")
             ground_truths == [i \in 1 .. Len(scored) |->
                                  scored[i].ground_truth]
             predictions == [i \in 1 .. Len(scored) |-> scored[i].prediction]
             metrics == IF include_metrics /\ scored # <<>>
                        THEN calculate_metrics(ground_truths, predictions)
                        ELSE NoMetrics
         IN  IF include_metrics /\ scored # <<>>
                /\ "overall" \notin metrics.keys
             THEN [code |-> 500, entered |-> TRUE,
                   inferred |-> [i \in 1 .. Len(items) |-> items[i].title],
                   predictions |-> <<>>, metrics |-> NoMetrics]
             ELSE [code |-> 200, entered |-> TRUE,
                   inferred |-> [i \in 1 .. Len(items) |-> items[i].title],
                   predictions |-> predictions_list, metrics |-> metrics]

EvalBatch(items, include_metrics, raised) ==
    /\ BatchIdle
    /\ LET b == batch_predict(items, include_metrics, raised)
       IN  lastOp' = [NoOp EXCEPT
                        !.op = "batch_evaluate", !.code = b.code,
                        !.metrics = b.metrics,
                        !.batch = [NoBatch EXCEPT
                                     !.texts = [i \in 1 .. Len(items) |->
                                                   items[i].title],
                                     !.raised = IF b.code = 200 THEN raised
                                                ELSE {},
                                     !.entered = b.entered,
                                     !.inferred = b.inferred,
                                     !.total_items = Len(items),
                                     !.successful = Len(b.predictions),
                                     !.failed = Len(items) - Len(b.predictions),
                                     !.predictions = b.predictions]]
    /\ UNCHANGED <<batch_model, now, phase, model, redis_cache,
                   postgres_logger, rc, pg, store, rows, req, tasks, call,
                   live>>

\* the application serves: the model loaded or not, the two stores connected
\* or both disabled, the evaluator's model not set
InitBatch ==
    /\ phase = "batch"
    /\ model \in BOOLEAN
    /\ postgres_logger \in {FALSE, model}
    /\ redis_cache = postgres_logger
    /\ rc = IF redis_cache
            THEN [connected |-> TRUE, client |-> TRUE, attempts |-> 0]
            ELSE FreshCache
    /\ pg = IF postgres_logger
            THEN [connected |-> TRUE, client |-> TRUE, attempts |-> 0]
            ELSE FreshLogger
    /\ store = EmptyStore
    /\ rows = <<>>
    /\ req = [r \in Slots |-> IdleReq]
    /\ tasks = EmptyBag
    /\ call = IdleCall
    /\ lastOp = NoOp
    /\ live = [k \in Keys |-> NoLive]
    /\ now = 0
    /\ batch_model = FALSE

NextBatch ==
    \/ /\ BatchIdle
       /\ \E t \in SentTexts : PredictRequest_validate(t)
    \/ /\ BatchIdle
       /\ \E ts \in TitleLists, o \in BatchInferOutcomes,
             ms \in BatchLatencies : MainBatch(ts, o, ms)
    \/ set_model
    \/ /\ BatchIdle
       /\ \E items \in ItemLists, m \in BOOLEAN :
             \E raised \in SUBSET (1 .. Len(items)) : EvalBatch(items, m, raised)
    \/ /\ BatchIdle /\ rows = <<>>
       /\ \E yt \in LabelLists, yp \in LabelLists : Metrics(yt, yp)
    \/ BatchRetire
    \/ /\ phase = "batch"
       /\ \E t \in BagToSet(tasks), o \in LogOutcomes : RunLogTask(t, o)

BatchSpec == InitBatch /\ [][NextBatch]_vars

(***************************************************************************)
(* Properties of the validation and of the batch handlers (specification    *)
(* BatchSpec).                                                              *)
(***************************************************************************)
\* the request answered last carried a text that is empty or longer than
\* 512 characters
InvalidTextSent ==
    \E i \in 1 .. Len(lastOp.batch.texts) :
        \/ TitleLen(lastOp.batch.texts[i]) = 0
        \/ TitleLen(lastOp.batch.texts[i]) > 512

\* the request answered last was rejected before anything was done for it
RejectedUpFront ==
    /\ lastOp.code = 422
    /\ ~lastOp.batch.entered
    /\ lastOp.batch.inferred = <<>>
    /\ lastOp.batch.logged = <<>>
    /\ lastOp.batch.predictions = <<>>

\* input validation precedes every downstream call, for every prediction
\* endpoint, single and batch (the statement of C26 as it was written)
C26_ValidationEverywhere ==
    /\ lastOp.op \in {"predict_request", "predict_batch", "batch_evaluate"}
    /\ InvalidTextSent
    => /\ lastOp.code \notin {0, 200}
       /\ lastOp.batch.inferred = <<>>
       /\ lastOp.batch.logged = <<>>
       /\ lastOp.batch.predictions = <<>>

\* POST /predict and the batch evaluator reject a request with an invalid
\* text; POST /predict/batch does not look at the texts: with the model
\* loaded all of them reach the model, and with the logger enabled a log
\* write is created for each
C26_Answer ==
    /\ lastOp.op \in {"predict_request", "batch_evaluate"} =>
          (InvalidTextSent <=> RejectedUpFront)
    /\ lastOp.op = "predict_batch" =>
          /\ lastOp.code # 422
          /\ lastOp.code = 503 <=> ~model
          /\ model => lastOp.batch.inferred = lastOp.batch.texts
          /\ lastOp.code = 200 =>
                lastOp.batch.logged =
                   IF postgres_logger THEN lastOp.batch.texts ELSE <<>>

\* a request that is rejected creates no detached write and changes nothing
C26_Frame ==
    lastOp.op = "none" /\ lastOp'.code = 422 =>
        UNCHANGED <<tasks, rows, store>>

\* C26: input validation precedes every downstream call of POST /predict and
\* of the batch evaluator: a text that is empty or longer than 512 characters
\* gets the request rejected before any cache lookup, model inference, cache
\* write or log write is performed for it.  POST /predict/batch of the main
\* application validates only the number of titles and passes empty and
\* oversized titles to inference and logging.
C26_ValidationPrecedes == []C26_Answer /\ [][C26_Frame]_vars

\* the batch evaluator, with its model set, has rejected a request of two
\* items of which one has an empty title
C26_Witness ==
    /\ lastOp.op = "batch_evaluate" /\ batch_model
    /\ Len(lastOp.batch.texts) = 2
    /\ lastOp.batch.texts[1] = "t1" /\ lastOp.batch.texts[2] = ""
    /\ RejectedUpFront

\* the positions of the request answered last at which inference did not
\* raise, in input order
GoodPositions ==
    SelectSeq([i \in 1 .. Len(lastOp.batch.texts) |-> i],
              LAMBDA i : i \notin lastOp.batch.raised)

\* C28: batch partial failure in the batch evaluator: an item whose
\* prediction raises is counted as failed and left out of the results
\* without aborting the batch, and every other item is returned in input
\* order: successful = number of items whose prediction did not raise,
\* failed = total_items - successful (5 items of which only item 3 raises
\* give successful=4, failed=1 and the 4 good results).
C28_PartialFailure ==
    lastOp.op = "batch_evaluate" /\ lastOp.batch.entered /\ batch_model =>
        /\ lastOp.code = 200
        /\ lastOp.batch.total_items = Len(lastOp.batch.texts)
        /\ lastOp.batch.successful = Len(GoodPositions)
        /\ lastOp.batch.failed = Cardinality(lastOp.batch.raised)
        /\ Len(lastOp.batch.predictions) = Len(GoodPositions)
        /\ \A k \in 1 .. Len(GoodPositions) :
              lastOp.batch.predictions[k].title =
                 lastOp.batch.texts[GoodPositions[k]]

(***************************************************************************)
(* Properties of calculate_metrics (specification BatchSpec).              *)
(***************************************************************************)
\* calculate_metrics has been called for predictions [TECH, BUSINESS, TECH]
\* against ground truth [TECH, TECH, TECH]
ScenarioComputed ==
    /\ lastOp.op = "calculate_metrics"
    /\ lastOp.y_pred = <<"TECH", "BUSINESS", "TECH">>
    /\ lastOp.y_true = <<"TECH", "TECH", "TECH">>

\* the scenario as it was written: accuracy = 2/3, class TECH recall = 1.0
\* and precision = 2/3, class BUSINESS precision = 0 and recall = 0
C29_ScenarioAsWritten ==
    ScenarioComputed =>
        /\ lastOp.metrics.overall.accuracy = <<2, 3>>
        /\ lastOp.metrics.per_class["TECH"].recall = <<1, 1>>
        /\ lastOp.metrics.per_class["TECH"].precision = <<2, 3>>
        /\ lastOp.metrics.per_class["BUSINESS"].precision = Zero
        /\ lastOp.metrics.per_class["BUSINESS"].recall = Zero

\* C29: metrics correctness scenario: calculate_metrics for predictions
\* [TECH, BUSINESS, TECH] against ground truth [TECH, TECH, TECH] gives
\* accuracy = 2/3, class TECH precision = 1.0 (2 of the 2 predicted) and
\* recall = 2/3 (2 of the 3 true), and class BUSINESS precision = 0 (0 of
\* the 1 predicted) and recall = 0 (0/0 reported as 0).
C29_Scenario ==
    ScenarioComputed =>
        /\ "error" \notin lastOp.metrics.keys
        /\ lastOp.metrics.overall.accuracy = <<2, 3>>
        /\ DOMAIN lastOp.metrics.per_class = {"TECH", "BUSINESS"}
        /\ lastOp.metrics.per_class["TECH"].precision = <<1, 1>>
        /\ lastOp.metrics.per_class["TECH"].recall = <<2, 3>>
        /\ lastOp.metrics.per_class["BUSINESS"].precision = Zero
        /\ lastOp.metrics.per_class["BUSINESS"].recall = Zero
        /\ lastOp.metrics.per_class["TECH"].support = 3
        /\ lastOp.metrics.per_class["BUSINESS"].support = 0

\* the scenario has been computed and has a result
C29_Witness ==
    /\ ScenarioComputed
    /\ lastOp.metrics.keys = {"overall", "per_class", "confusion_matrix"}

\* the value v is the fraction n / d, or 0 when d = 0
IsRatio(v, n, d) ==
    /\ v[2] > 0
    /\ IF d = 0 THEN v[1] = 0 ELSE v[1] * d = n * v[2]

\* the number of positions of the lists of the last call at which the true
\* label (want = "true"), the predicted label ("pred") or both ("both") is
\* the class c
CountAt(c, want) ==
    Cardinality({i \in 1 .. Len(lastOp.y_true) :
                    /\ want \in {"true", "both"} => lastOp.y_true[i] = c
                    /\ want \in {"pred", "both"} => lastOp.y_pred[i] = c})

\* C30: zero-division in metrics yields 0: for every pair of equal-length
\* non-empty label lists, calculate_metrics returns for each class of the
\* union precision = TP/(TP+FP), recall = TP/(TP+FN) and F1, with the value
\* 0 (not an error and not an undefined value) whenever the denominator is
\* 0, i.e. for a class with no predicted instances or no true instances.
C30_ZeroDivision ==
    /\ lastOp.op = "calculate_metrics"
    /\ lastOp.y_true # <<>>
    /\ Len(lastOp.y_true) = Len(lastOp.y_pred)
    => LET m == lastOp.metrics
           classes == {lastOp.y_true[i] : i \in 1 .. Len(lastOp.y_true)} \cup
                      {lastOp.y_pred[i] : i \in 1 .. Len(lastOp.y_pred)}
       IN  /\ "error" \notin m.keys
           /\ DOMAIN m.per_class = classes
           /\ \A c \in classes :
                 /\ IsRatio(m.per_class[c].precision,
                            CountAt(c, "both"), CountAt(c, "pred"))
                 /\ IsRatio(m.per_class[c].recall,
                            CountAt(c, "both"), CountAt(c, "true"))
                 /\ IsRatio(m.per_class[c].f1, 2 * CountAt(c, "both"),
                            CountAt(c, "pred") + CountAt(c, "true"))

\* a class without predicted instances and a class without true instances
\* have been scored
C30_Witness ==
    /\ lastOp.op = "calculate_metrics"
    /\ lastOp.y_true = <<"TECH", "SPORTS">>
    /\ lastOp.y_pred = <<"BUSINESS", "SPORTS">>
    /\ lastOp.metrics.per_class["TECH"].precision = Zero
    /\ lastOp.metrics.per_class["BUSINESS"].recall = Zero
    /\ lastOp.metrics.per_class["SPORTS"].f1 = <<1, 1>>

(***************************************************************************)
(* Batch prediction of main.py: cache untouched, one log write per item    *)
(* (specification BatchSpec).                                               *)
(***************************************************************************)

\* a step in which POST /predict/batch answers
BatchAnswers == lastOp.op = "none" /\ lastOp'.op = "predict_batch"

\* the log writes a step added are one per position of the request, each
\* with its own title, that title's label and the n-th part of the latency
OnePerItem(b) ==
    LET n == Len(b.texts)
    IN  /\ BagCardinality(tasks') = n
        /\ \A t \in BagToSet(tasks') :
              /\ t.kind = "log"
              /\ CopiesIn(t, tasks') =
                    Cardinality({i \in 1 .. n : b.texts[i] = t.text})
              /\ t.payload.prediction = ClassifyAny(t.text).topic
              /\ t.payload.confidence = ClassifyAny(t.text).confidence
              /\ t.payload.latency_ms[1] * n =
                    b.latency_ms * t.payload.latency_ms[2]

\* C31: POST /predict/batch performs no cache operation and leaves the cache
\* as it is; with the logger handle present a successful batch dispatches
\* exactly one log write per input item, carrying that item's predicted
\* label and latency = total latency / item count; the response has one
\* prediction per input title in input order, and a log write that runs
\* later, whatever its outcome, leaves the response as it was returned
C31_BatchLogsPerItem ==
    [][/\ BatchAnswers =>
            /\ store' = store /\ rc' = rc /\ call' = call
            /\ req' = req /\ live' = live
            /\ lastOp'.code = 200 =>
                  LET b == lastOp'.batch
                  IN  /\ b.total_items = Len(b.texts)
                      /\ Len(b.predictions) = Len(b.texts)
                      /\ \A i \in 1 .. Len(b.texts) :
                            /\ b.predictions[i].topic =
                                  ClassifyAny(b.texts[i]).topic
                            /\ b.predictions[i].confidence =
                                  ClassifyAny(b.texts[i]).confidence
                      /\ postgres_logger => OnePerItem(b)
                      /\ ~postgres_logger => tasks' = tasks
            /\ lastOp'.code # 200 => tasks' = tasks
       /\ (lastOp.op = "predict_batch" /\ tasks' # tasks) =>
            lastOp' = lastOp]_vars

\* a batch of two different titles was answered with two predictions, the
\* cache being connected, and of its two log writes one inserted its row and
\* the other failed
C31_Witness ==
    /\ lastOp.op = "predict_batch"
    /\ lastOp.code = 200
    /\ Len(lastOp.batch.texts) = 2
    /\ lastOp.batch.texts[1] # lastOp.batch.texts[2]
    /\ Len(lastOp.batch.predictions) = 2
    /\ redis_cache /\ rc.connected
    /\ postgres_logger
    /\ tasks = EmptyBag
    /\ Len(rows) = 1

(***************************************************************************)
(* Concurrent /predict requests for the same text (specification RaceSpec):*)
(* two handlers at a time, the cache connected or disabled, nobody else    *)
(* writing.                                                                *)
(***************************************************************************)
RaceSlots == {"r1", "r2"}

\* texts with a key of their own
RaceTexts == {"t1", "t2"}

InitRace ==
    /\ phase = "serving"
    /\ model = TRUE
    /\ redis_cache \in BOOLEAN
    /\ postgres_logger = FALSE
    /\ rc = IF redis_cache
            THEN [connected |-> TRUE, client |-> TRUE, attempts |-> 0]
            ELSE FreshCache
    /\ pg = FreshLogger
    /\ store = EmptyStore
    /\ rows = <<>>
    /\ req = [r \in RaceSlots |-> IdleReq]
    /\ tasks = EmptyBag
    /\ call = IdleCall
    /\ lastOp = NoOp
    /\ live = [k \in Keys |-> NoLive]
    /\ now = 0
    /\ batch_model = FALSE

NextRace ==
    \/ \E r \in RaceSlots, t \in RaceTexts, u \in BOOLEAN :
          PredictBegin(r, t, u, "none")
    \/ \E r \in RaceSlots, o \in GetOutcomes : PredictGetReply(r, o)
    \/ \E r \in RaceSlots : Retire(r)
    \/ \E t \in BagToSet(tasks), o \in SetOutcomes : RunSetTask(t, o)
    \/ Tick

RaceSpec == InitRace /\ [][NextRace]_vars

\* the value stored for text t is the serialized result of the model for t
StoresResultOf(t) ==
    LET e == store[_generate_key(t)]
    IN  e.present =>
           /\ json_loads(e.bytes).exc = "none"
           /\ json_loads(e.bytes).val.topic = Classify(t).topic
           /\ json_loads(e.bytes).val.confidence = Classify(t).confidence
           /\ json_loads(e.bytes).val.probabilities = Classify(t).probabilities

\* C32: under every interleaving of /predict requests for the same text,
\* two misses that both infer and both write included, every value stored
\* under the text's key is the model's result for the text, whichever write
\* lands last, and every response for the text, hit or miss, carries that
\* topic, confidence and probabilities
C32_RacingPopulates ==
    /\ \A t \in RaceTexts : StoresResultOf(t)
    /\ \A r \in RaceSlots :
          (req[r].pc = "done" /\ req[r].resp.status = 200) =>
             /\ req[r].resp.topic = Classify(req[r].title).topic
             /\ req[r].resp.confidence = Classify(req[r].title).confidence
             /\ req[r].resp.probabilities =
                   Classify(req[r].title).probabilities

\* two requests for one text both missed and both ran inference, both of
\* their writes are pending, and the entry is there already from an
\* earlier write
C32_WitnessRace ==
    /\ req["r1"].pc = "done" /\ req["r2"].pc = "done"
    /\ req["r1"].title = "t2" /\ req["r2"].title = "t2"
    /\ req["r1"].lookups = 1 /\ req["r2"].lookups = 1
    /\ req["r1"].infer = 1 /\ req["r2"].infer = 1
    /\ redis_cache /\ rc.connected
    /\ store[_generate_key("t2")].present
    /\ CopiesIn(SetTask("t2", [topic |-> Classify("t2").topic,
                               confidence |-> Classify("t2").confidence,
                               probabilities |-> Classify("t2").probabilities]),
                tasks) = 2

(***************************************************************************)
(* Termination of the store round trips (specification FairCacheSpec): the *)
(* event loop resumes every call whose await has ended, by the backend's   *)
(* answer, by an exception or by the timeout of asyncio.wait_for.  An await *)
(* without a timeout on a backend that never answers never ends.           *)
(***************************************************************************)
FairCacheSpec ==
    /\ CacheSpec
    /\ WF_vars(\E o \in GetOutcomes : UGetReply(o))
    /\ WF_vars(\E o \in CleanupOutcomes : UGetCleanup(o))

\* C33: every cache-layer operation that has been called eventually returns,
\* also when the backend never answers
C33_TimeoutBounded == (call.pc # "idle") ~> (call.pc = "idle")

\* C34: the cache-population and log writes that are dispatched and pending
\* at the same time never exceed a fixed bound: the handlers stop adding
\* writes (drop them) before the pending writes pass MaxTasks, the number up
\* to which requests are admitted here with writes still pending
C34_BackgroundBounded == BagCardinality(tasks) <= MaxTasks

(***************************************************************************)
(* The confusion matrix of calculate_metrics (specification BatchSpec).    *)
(***************************************************************************)
\* the sum of the entries m[i][j] over a set of index pairs
RECURSIVE MatrixSum(_, _)
MatrixSum(m, S) ==
    IF S = {} THEN 0
    ELSE LET p == CHOOSE x \in S : TRUE
         IN  m[p[1]][p[2]] + MatrixSum(m, S \ {p})

\* the labels observed in the two lists of the last call
ObservedLabels ==
    {lastOp.y_true[i] : i \in 1 .. Len(lastOp.y_true)} \cup
    {lastOp.y_pred[i] : i \in 1 .. Len(lastOp.y_pred)}

\* C35: calculate_metrics labels the matrix with the sorted union of the
\* observed true and predicted labels, without duplicates; entry [i][j] is
\* the number of samples with true label labels[i] and predicted label
\* labels[j]; the entries sum to total_samples, row i sums to the support of
\* labels[i], and the diagonal sums to correct_predictions, which is
\* accuracy * total_samples
C35_ConfusionMatrix ==
    (lastOp.op = "calculate_metrics" /\ "error" \notin lastOp.metrics.keys) =>
        LET mt == lastOp.metrics
            n  == Len(mt.labels)
            idx == 1 .. n
        IN  /\ {mt.labels[i] : i \in idx} = ObservedLabels
            /\ n = Cardinality(ObservedLabels)
            /\ \A i, j \in idx :
                  i < j => LabelRank(mt.labels[i]) < LabelRank(mt.labels[j])
            /\ Len(mt.matrix) = n
            /\ \A i \in idx :
                  /\ Len(mt.matrix[i]) = n
                  /\ \A j \in idx :
                        mt.matrix[i][j] =
                           Cardinality({k \in 1 .. Len(lastOp.y_true) :
                                           /\ lastOp.y_true[k] = mt.labels[i]
                                           /\ lastOp.y_pred[k] = mt.labels[j]})
                  /\ MatrixSum(mt.matrix, {i} \X idx) =
                        mt.per_class[mt.labels[i]].support
            /\ MatrixSum(mt.matrix, idx \X idx) = mt.overall.total_samples
            /\ MatrixSum(mt.matrix, {<<i, i>> : i \in idx}) =
                  mt.overall.correct_predictions
            /\ mt.overall.accuracy[1] * mt.overall.total_samples =
                  mt.overall.correct_predictions * mt.overall.accuracy[2]

\* three samples over three labels given out of order, one of them
\* predicted as another label: an off-diagonal entry and a label that is
\* only predicted
C35_Witness ==
    /\ lastOp.op = "calculate_metrics"
    /\ lastOp.y_true = <<"TECH", "BUSINESS", "TECH">>
    /\ lastOp.y_pred = <<"TECH", "BUSINESS", "SPORTS">>
    /\ lastOp.metrics.labels = <<"BUSINESS", "SPORTS", "TECH">>
    /\ lastOp.metrics.matrix = <<<<1, 0, 0>>, <<0, 0, 0>>, <<0, 1, 1>>>>

C37_ClosedIsDisconnected ==
    /\ [](lastOp.op = "close" => ~LayerConnected)
    /\ [][(lastOp.op = "close" /\ lastOp' # lastOp) =>
            /\ lastOp'.op = "get" =>
                  lastOp'.via = "bypass" /\ ~lastOp'.val.some
            /\ lastOp'.op \in {"set", "log_prediction"} =>
                  lastOp'.ok /\ ~lastOp'.contacted]_vars

\* the cache write predict creates for a title
PopulateOf(title) ==
    SetTask(title, [topic |-> Classify(title).topic,
                    confidence |-> Classify(title).confidence,
                    probabilities |-> Classify(title).probabilities])

\* a /predict request sent with use_cache=false arrives in slot r
C38_Step ==
    \A r \in RaceSlots :
        (/\ req[r].pc = "idle" /\ req'[r].pc # "idle"
         /\ PredictBegin(r, req'[r].title, FALSE, "none")) =>
            /\ req'[r].pc = "done"
            /\ req'[r].lookups = 0
            /\ req'[r].infer = 1
            /\ store' = store
            /\ req'[r].resp.status \in {200, 500}
            /\ req'[r].resp.status = 200 =>
                  /\ ~req'[r].resp.cached
                  /\ req'[r].resp.topic = Classify(req'[r].title).topic
                  /\ CopiesIn(PopulateOf(req'[r].title), tasks') =
                        CopiesIn(PopulateOf(req'[r].title), tasks) +
                        (IF redis_cache /\ rc.connected THEN 1 ELSE 0)
            /\ req'[r].resp.status = 500 => tasks' = tasks

\* C38: a /predict request with use_cache=false never reads the cache and is
\* answered by inference with cached=false; when inference succeeds it
\* dispatches the cache-population write for its text whenever the cache is
\* connected, and none when it is not
C38_SkipsOnlyLookup == [][C38_Step]_vars

\* a request with use_cache=false (no lookup although the cache is
\* connected) was answered by inference, its write has landed, and a request
\* for the same text that looked the cache up was served from it
C38_Witness ==
    /\ redis_cache /\ rc.connected
    /\ req["r1"].pc = "done" /\ req["r1"].title = "t2"
    /\ req["r1"].lookups = 0 /\ req["r1"].infer = 1
    /\ req["r1"].resp.status = 200 /\ ~req["r1"].resp.cached
    /\ req["r2"].pc = "done" /\ req["r2"].title = "t2"
    /\ req["r2"].lookups = 1 /\ req["r2"].infer = 0
    /\ req["r2"].resp.cached
    /\ tasks = EmptyBag

(***************************************************************************)
(* GET /cache/clear (main.py).                                             *)
(***************************************************************************)
\* cache_clear(): without the handle "redis_unavailable"; otherwise
\* flush_all() is awaited, its value is dropped, and the answer is "cleared".
\* flushed is the value flush_all returned.
cache_clear(out) ==
    IF ~redis_cache
    THEN [code |-> 200, status |-> "redis_unavailable", flushed |-> FALSE,
          store |-> store]
    ELSE [code |-> 200, status |-> "cleared",
          flushed |-> flush_all(rc, store, out).ret,
          store |-> flush_all(rc, store, out).store]

\* GET /cache/clear is served; the FLUSHDB of flush_all has no timeout, so
\* a backend that does not answer leaves the handler waiting
CacheClear(out) ==
    /\ phase = "serving"
    /\ call.pc = "idle"
    /\ IF redis_cache /\ ~Bypass(rc) /\ out = "hang"
       THEN /\ call' = [IdleCall EXCEPT !.pc = "hung"]
            /\ UNCHANGED <<store, lastOp>>
       ELSE /\ store' = cache_clear(out).store
            /\ call' = call
            /\ lastOp' = [NoOp EXCEPT
                            !.op = "cache_clear",
                            !.code = cache_clear(out).code,
                            !.ok = cache_clear(out).flushed,
                            !.body = [NoBody EXCEPT
                                        !.keys = IF redis_cache
                                                 THEN {"status", "timestamp"}
                                                 ELSE {"status"},
                                        !.status = cache_clear(out).status]]
    /\ UNCHANGED <<batch_model, now, phase, model, redis_cache,
                   postgres_logger, rc, pg, rows, req, tasks, live>>

(***************************************************************************)
(* /predict over entries that are JSON without the shape of a prediction   *)
(* (specification ShapeSpec): another writer has left, under some keys, an *)
(* object with a topic only or an empty object.  The cache is connected or *)
(* disabled, the logger is disabled, and the admin endpoint that clears    *)
(* the cache is served as well.                                            *)
(***************************************************************************)
MalformedBytes == {TopicOnly, EmptyObject}

InitShape ==
    /\ phase = "serving"
    /\ model = TRUE
    /\ redis_cache \in BOOLEAN
    /\ postgres_logger = FALSE
    /\ rc = IF redis_cache
            THEN [connected |-> TRUE, client |-> TRUE, attempts |-> 0]
            ELSE FreshCache
    /\ pg = FreshLogger
    /\ store \in [Keys -> {Absent} \cup {Entry(b, 0) : b \in MalformedBytes}]
    /\ rows = <<>>
    /\ req = [r \in Slots |-> IdleReq]
    /\ tasks = EmptyBag
    /\ call = IdleCall
    /\ lastOp = NoOp
    /\ live = [k \in Keys |-> NoLive]
    /\ now = 0
    /\ batch_model = FALSE

NextShape ==
    \/ \E r \in Slots, t \in Texts, u \in BOOLEAN :
          PredictBegin(r, t, u, "none")
    \/ \E r \in Slots, o \in GetOutcomes : PredictGetReply(r, o)
    \/ \E r \in Slots : Retire(r)
    \/ \E t \in BagToSet(tasks), o \in SetOutcomes : RunSetTask(t, o)
    \/ Tick
    \/ \E o \in DeleteOutcomes : CacheClear(o)

ShapeSpec == InitShape /\ [][NextShape]_vars

\* the lookup of the request returned a value that is no prediction: it is
\* falsy or lacks one of the three keys
MalformedGot(q) == q.got.some /\ ~CacheHit(q.got)

\* C39: a cached value that deserializes but is empty or lacks topic,
\* confidence or probabilities is treated as a miss: the request goes on to
\* inference and, unless inference itself fails, answers 200 with the
\* model's result and cached=false and dispatches the cache write for its
\* text; the value never causes an error response; the write, when it
\* reaches the store, replaces the entry by the model's result
C39_MalformedIsMiss ==
    /\ [](\A r \in Slots :
            (req[r].pc = "done" /\ MalformedGot(req[r])) =>
               /\ req[r].infer = 1
               /\ req[r].resp.status = 500 <=> req[r].inferOut = "raise"
               /\ req[r].inferOut = "ok" =>
                     /\ req[r].resp = PredictResponse(Classify(req[r].title),
                                                      FALSE)
                     /\ "set" \in req[r].dispatched)
    /\ [][\A r \in Slots :
            (/\ req[r].pc = "await_get" /\ req'[r].pc = "done"
             /\ MalformedGot(req'[r]) /\ req'[r].inferOut = "ok") =>
               CopiesIn(PopulateOf(req'[r].title), tasks') =
                  CopiesIn(PopulateOf(req'[r].title), tasks) + 1]_vars
    /\ [][\A t \in BagToSet(tasks), o \in SetOutcomes :
            (RunSetTask(t, o) /\ Applied(o)) =>
               store'[_generate_key(t.text)] =
                  Entry(json_dumps(t.payload), TTL)]_vars

\* a request found an empty object under its key, was answered by inference
\* with cached=false, and its write has replaced the entry by the model's
\* result
C39_Witness ==
    /\ req["r1"].pc = "done" /\ req["r1"].title = "t2"
    /\ req["r1"].got = Some(EmptyDict)
    /\ req["r1"].resp = PredictResponse(Classify("t2"), FALSE)
    /\ tasks = EmptyBag
    /\ store[_generate_key("t2")] = Entry(json_dumps(Classify("t2")), TTL)

\* C40: GET /cache/clear answers "cleared" only if the flush was carried
\* out: when flush_all returns false the answer is not "cleared", and after
\* an answer of "cleared" every entry that existed before the call is absent
C40_ClearedMeansFlushed ==
    [][\A o \in DeleteOutcomes :
          (CacheClear(o) /\ lastOp'.op = "cache_clear"
           /\ lastOp'.body.status = "cleared") =>
              /\ lastOp'.ok
              /\ \A k \in Keys : ~store'[k].present]_vars

=============================================================================
